---------------------------- MODULE Spec2Model ----------------------------
(***************************************************************************)
(* A model of summary_bot (src/main.py): the date-argument resolver, the   *)
(* final-update locator and stitcher, the schedule extractor, the          *)
(* final-update parser, the reconciler and the report formatter.           *)
(*                                                                         *)
(* Text is modelled as a sequence of lines; a line is a record             *)
(*   [k |-> label, s |-> string value, n |-> number value]                 *)
(* where the label is the lower-cased field name the source's regular      *)
(* expressions and substring tests look for.                               *)
(***************************************************************************)
EXTENDS Integers, Sequences, FiniteSets, TLC

VARIABLES
    \* ---- parse_day_argument
    today,              \* now.date() in the configured timezone, [y, m, d]
    day_arg,            \* the raw token handed to !summary
    target_date,        \* what parse_day_argument returned
    dayPc,              \* "idle" | "called" | "returned"
    \* ---- build_channel_data and format_output_directly for one channel
    channel,       \* channel.name
    sched_text,      \* what extract_schedule_and_final_update returned
    final_text,
    parsed_accounts,    \* build_channel_data's local: parse_final_update's map
    channel_data,       \* the ChannelData build_channel_data returned
    output_text,        \* what format_output_directly returned
    previous,           \* report and output of the previous execution
    rcPc,               \* "idle" | "extracted" | "built" | "formatted"
    \* ---- extract_schedule_and_final_update for one channel
    messages,           \* history_messages, newest first: [text, ts]
    final_update_index, \* index of the located final update, 0: None
    exPc,               \* "idle" | "fetched" | "extracted"
    \* ---- run_daily_summary
    guild,              \* bot.get_guild(settings.server_id): None or [text_channels]
    chan_pos,           \* position of the loop in guild.text_channels
    channel_structs,    \* the list of ChannelData collected so far
    struct_ids,         \* channel.id of each element of channel_structs
    runPc,              \* "idle" | "called" | "loop" | "returned" | "raised" | "sent"
    \* ---- the bot: event handlers, commands and the daily loop as coroutines
    handlers,           \* the handler tasks created so far: [kind, user, arg, pc]
    loop_pc,            \* daily_summary: "stopped" | "before_loop" | "in_run" | "sleeping"
    \* ---- parse_schedule_for_date
    schedule_run_date,  \* the run date of the final update, or None
    schedule_parse,     \* (device_name, method, accounts) and the section chosen
    schPc,              \* "idle" | "called" | "returned"
    \* ---- InstagramLogAnalyzer fed with the report format_output_directly wrote
    phones,             \* self.phones: phone number -> record
    analysis,           \* totals, failed_accounts and the success rate
    anPc                \* "idle" | "built" | "formatted" | "parsed" | "totalled" | "identified" | "rated"

dayVars == <<today, day_arg, target_date, dayPc>>

rcVars == <<channel, sched_text, final_text, parsed_accounts,
            channel_data, output_text, previous, rcPc>>

exVars == <<messages, final_update_index, exPc>>

botVars == <<handlers, loop_pc>>

schVars == <<schedule_run_date, schedule_parse, schPc>>

anVars == <<phones, analysis, anPc>>

runVars == <<guild, chan_pos, channel_structs, struct_ids, runPc, botVars, schVars, anVars>>

vars == <<dayVars, rcVars, exVars, runVars>>

None == [none |-> TRUE]

(***************************************************************************)
(* datetime.date: the proleptic Gregorian calendar                          *)
(***************************************************************************)
IsLeap(y) == (y % 4 = 0) /\ ((y % 100 # 0) \/ (y % 400 = 0))

DaysInMonth(y, m) ==
    CASE m \in {1, 3, 5, 7, 8, 10, 12} -> 31
      [] m \in {4, 6, 9, 11} -> 30
      [] m = 2 -> IF IsLeap(y) THEN 29 ELSE 28

\* datetime.date(y, m, d) raises ValueError unless this holds
ValidDate(y, m, d) == m \in 1..12 /\ d >= 1 /\ d <= DaysInMonth(y, m)

Date(y, m, d) == [y |-> y, m |-> m, d |-> d]

RECURSIVE DaysBeforeMonth(_, _)
DaysBeforeMonth(y, m) ==
    IF m = 1 THEN 0 ELSE DaysBeforeMonth(y, m - 1) + DaysInMonth(y, m - 1)

DaysBeforeYear(y) ==
    (y - 1) * 365 + ((y - 1) \div 4) - ((y - 1) \div 100) + ((y - 1) \div 400)

\* date.toordinal(): 0001-01-01 is day 1
ToOrdinal(dt) == DaysBeforeYear(dt.y) + DaysBeforeMonth(dt.y, dt.m) + dt.d

RECURSIVE MonthOfDayInYear(_, _, _)
MonthOfDayInYear(y, m, n) ==
    IF n <= DaysInMonth(y, m) THEN Date(y, m, n)
    ELSE MonthOfDayInYear(y, m + 1, n - DaysInMonth(y, m))

RECURSIVE YearOfOrdinal(_, _)
YearOfOrdinal(y, n) ==
    IF n <= DaysBeforeYear(y) THEN YearOfOrdinal(y - 1, n)
    ELSE IF n > DaysBeforeYear(y + 1) THEN YearOfOrdinal(y + 1, n)
    ELSE y

\* date.fromordinal(n)
FromOrdinal(n) ==
    LET y == YearOfOrdinal((n \div 365) + 1, n)
    IN  MonthOfDayInYear(y, 1, n - DaysBeforeYear(y))

\* date - timedelta(days=k)
MinusDays(dt, k) == FromOrdinal(ToOrdinal(dt) - k)

\* date.weekday(): Monday is 0
Weekday(dt) == (ToOrdinal(dt) + 6) % 7

\* d1 > d2 on dates
DateAfter(d1, d2) == ToOrdinal(d1) > ToOrdinal(d2)

(***************************************************************************)
(* Date strings.  A string of the shape digits-digits-digits is the record *)
(* [y, m, d, mw, dw, tail]: the three numbers, the number of digits the    *)
(* month and the day are written with, and whatever follows the day.       *)
(***************************************************************************)
DateStr(y, m, d, mw, dw, tail) ==
    [y |-> y, m |-> m, d |-> d, mw |-> mw, dw |-> dw, tail |-> tail]

\* date.strftime("%Y-%m-%d"): zero-padded, nothing after the day
Strftime(dt) == DateStr(dt.y, dt.m, dt.d, 2, 2, "")

\* the three numbers of a date string
DateOfStr(s) == Date(s.y, s.m, s.d)


(***************************************************************************)
(* The tokens handed to parse_day_argument.  A token is one of four shapes: *)
(*   "word"      a single word                     monday, Today, foo      *)
(*   "monthday"  a word, blanks, 1-2 digits        dec 02, february 30     *)
(*   "iso"       4 digits - 1-2 digits - 1-2 digits, then tail             *)
(*   "short"     1-2 digits, / or -, 1-2 digits    12/02, 2-30              *)
(* uc records that the word is typed with upper-case letters; w is its     *)
(* spelling in lower case.                                                 *)
(***************************************************************************)
Tok(shape, w, uc, y, m, d, mw, dw, tail) ==
    [shape |-> shape, w |-> w, uc |-> uc, y |-> y, m |-> m, d |-> d,
     mw |-> mw, dw |-> dw, tail |-> tail]

WordTok(w, uc) == Tok("word", w, uc, 0, 0, 0, 0, 0, "")
MonthDayTok(w, d, uc) == Tok("monthday", w, uc, 0, 0, d, 0, 2, "")
IsoTok(y, m, d, mw, dw, tail) == Tok("iso", "", FALSE, y, m, d, mw, dw, tail)
ShortTok(m, d) == Tok("short", "", FALSE, 0, m, d, 2, 2, "")

\* str.lower().strip() of the token: the word loses its upper case
LowerStrip(tok) == [tok EXCEPT !.uc = FALSE]

\* main.py:55-59
day_names ==
    [w \in {"monday", "mon", "tuesday", "tue", "tues", "wednesday", "wed",
            "thursday", "thu", "thur", "thurs", "friday", "fri", "saturday",
            "sat", "sunday", "sun"} |->
        CASE w \in {"monday", "mon"} -> 0
          [] w \in {"tuesday", "tue", "tues"} -> 1
          [] w \in {"wednesday", "wed"} -> 2
          [] w \in {"thursday", "thu", "thur", "thurs"} -> 3
          [] w \in {"friday", "fri"} -> 4
          [] w \in {"saturday", "sat"} -> 5
          [] w \in {"sunday", "sun"} -> 6]

\* main.py:71-76
month_names ==
    [w \in {"jan", "january", "feb", "february", "mar", "march", "apr",
            "april", "may", "jun", "june", "jul", "july", "aug", "august",
            "sep", "sept", "september", "oct", "october", "nov", "november",
            "dec", "december"} |->
        CASE w \in {"jan", "january"} -> 1
          [] w \in {"feb", "february"} -> 2
          [] w \in {"mar", "march"} -> 3
          [] w \in {"apr", "april"} -> 4
          [] w = "may" -> 5
          [] w \in {"jun", "june"} -> 6
          [] w \in {"jul", "july"} -> 7
          [] w \in {"aug", "august"} -> 8
          [] w \in {"sep", "sept", "september"} -> 9
          [] w \in {"oct", "october"} -> 10
          [] w \in {"nov", "november"} -> 11
          [] w \in {"dec", "december"} -> 12]

\* main.py:64-66
DaysAgoNoWeekFix(current_weekday, target_weekday) ==
    (current_weekday - target_weekday) % 7

DaysAgo(current_weekday, target_weekday) ==
    LET days_ago == (current_weekday - target_weekday) % 7
    IN  IF days_ago = 0 THEN 7 ELSE days_ago

\* main.py:84-90 and 100-106: the try block around datetime.date(...)
NearestPast(tdy, month, day) ==
    IF ~ValidDate(tdy.y, month, day) THEN None            \* ValueError
    ELSE IF DateAfter(Date(tdy.y, month, day), tdy)
         THEN IF ~ValidDate(tdy.y - 1, month, day) THEN None   \* ValueError
              ELSE Strftime(Date(tdy.y - 1, month, day))
         ELSE Strftime(Date(tdy.y, month, day))

\* main.py:92-94: the token is returned as typed
IsoPassThrough(tok) == DateStr(tok.y, tok.m, tok.d, tok.mw, tok.dw, tok.tail)

\* main.py:36-108
parse_day_argument(tok, tdy) ==
    LET day_arg_lower == LowerStrip(tok)
        isWord == day_arg_lower.shape = "word"
    IN  IF isWord /\ day_arg_lower.w = "today" THEN Strftime(tdy)
        ELSE IF isWord /\ day_arg_lower.w = "yesterday"
             THEN Strftime(MinusDays(tdy, 1))
        ELSE IF isWord /\ day_arg_lower.w \in DOMAIN day_names
             THEN Strftime(MinusDays(tdy,
                      DaysAgo(Weekday(tdy), day_names[day_arg_lower.w])))
        ELSE IF day_arg_lower.shape = "monthday"
                /\ day_arg_lower.w \in DOMAIN month_names
             THEN NearestPast(tdy, month_names[day_arg_lower.w], day_arg_lower.d)
        ELSE IF tok.shape = "iso" THEN IsoPassThrough(tok)
        ELSE IF tok.shape = "short" THEN NearestPast(tdy, tok.m, tok.d)
        ELSE None

(***************************************************************************)
(* Inputs of the resolver                                                   *)
(***************************************************************************)
DaySpan == 8

TodayAnchors == {Date(2024, 2, 24), Date(2024, 12, 27), Date(2025, 2, 24)}

Todays == {FromOrdinal(ToOrdinal(a) + k) : a \in TodayAnchors, k \in 0..(DaySpan - 1)}

WordTokens ==
    {WordTok(w, uc) : w \in (DOMAIN day_names) \cup {"today", "yesterday", "foo"},
                      uc \in BOOLEAN}

MonthDayTokens ==
    {MonthDayTok(w, d, FALSE) : w \in {"feb", "december", "sept", "foo"},
                                d \in {2, 29, 31}}

Widths(n) == IF n >= 10 THEN {2} ELSE {1, 2}

IsoTokens ==
    UNION {{IsoTok(2025, m, d, mw, dw, tail) : mw \in Widths(m), dw \in Widths(d)}
           : m \in {2, 12, 13}, d \in {3, 30}, tail \in {"", "x"}}

ShortTokens == {ShortTok(m, d) : m \in {2, 12, 13}, d \in {2, 29, 31}}

DayTokens == WordTokens \cup MonthDayTokens \cup IsoTokens \cup ShortTokens

(***************************************************************************)
(* Message text.  extract_message_text yields a string; here it is a        *)
(* sequence of lines.  Each line carries the label the source searches for *)
(* (lower-cased, as every search in the source ignores case), a string     *)
(* value s, a number n (-1: no digits) and a date string dt.               *)
(***************************************************************************)
NoDate == DateStr(0, 0, 0, 0, 0, "")

Line(k, s, n) == [k |-> k, s |-> s, n |-> n, dt |-> NoDate]

DateLine(k, dt) == [k |-> k, s |-> "", n |-> -1, dt |-> dt]

\* str.lower() on the strings that occur in the texts below
Lower(s) ==
    CASE s = "Off" -> "off"
      [] s = "OFF" -> "off"
      [] s = "Method 1" -> "method 1"
      [] s = "Method 9" -> "method 9"
      [] s = "Method9" -> "method9"
      [] s = "Stats" -> "stats"
      [] s = "Type" -> "type"
      [] s = "True" -> "true"
      [] s = "False" -> "false"
      [] OTHER -> s

\* the phrases, among those the source tests with `in text.lower()`, that
\* occur in one line
PhrasesOf(line) ==
    CASE line.k = "task final update" -> {"task final update"}
      [] line.k = "device name" -> {"device name"}
      [] line.k = "automation type" ->
            {"automation type"} \cup
            (IF Lower(line.s) = "method 9" THEN {"method 9"} ELSE {})
      [] line.k = "account username" -> {"account username:"}
      [] line.k = "account" -> {"account:"}
      [] line.k = "stats" -> {"stats"}
      [] line.k = "start time" -> {"start time:"}
      [] line.k = "end time" -> {"end time:"}
      [] line.k = "accounts" -> {"accounts:"}
      [] line.k = "unfollowed accounts" -> {"accounts:"}
      [] line.k = "task" -> {"task:"}
      [] line.k = "daily schedule reminder" -> {"daily schedule reminder", "schedule"}
      [] line.k = "weekly plan scheduled" -> {"weekly plan scheduled", "schedule"}
      [] line.k = "schedule" -> {"schedule"}
      [] line.k = "day header" -> (IF line.s = "emoji" THEN {"calendar emoji"} ELSE {})
      [] line.k = "entry" -> (IF Lower(line.s) = "method 9" THEN {"method 9"} ELSE {})
      [] line.k = "part 2" -> {"(part 2)"}
      [] line.k = "force stopped" -> {"force stopped"}
      [] line.k = "disconnected" -> {"disconnected"}
      [] line.k = "request pending" -> {"request pending"}
      [] line.k = "popup detected" -> {"popup detected"}
      [] line.k = "method 9" -> {"method 9"}
      [] OTHER -> {}

\* phrase in text.lower()
Contains(text, phrase) == \E i \in 1..Len(text) : phrase \in PhrasesOf(text[i])

\* not text or not text.strip()
IsBlank(text) == text = <<>>

\* index of the first line of `text` at or after `from` whose label is in K; 0 if none
RECURSIVE FirstFrom(_, _, _)
FirstFrom(text, K, from) ==
    IF from > Len(text) THEN 0
    ELSE IF text[from].k \in K THEN from
    ELSE FirstFrom(text, K, from + 1)

First(text, K) == FirstFrom(text, K, 1)

\* re.search(r"<field>:\s*(\d{4}-\d{2}-\d{2})"): the first line of that field
\* whose value is a date (a value such as null does not match)
RECURSIVE FirstDated(_, _, _)
FirstDated(text, k, from) ==
    IF from > Len(text) THEN 0
    ELSE IF text[from].k = k /\ text[from].dt # NoDate THEN from
    ELSE FirstDated(text, k, from + 1)

\* main.py:156-181; None when neither field carries a date
_extract_run_date_from_text(text) ==
    LET start_match == FirstDated(text, "start time", 1)
        end_match == FirstDated(text, "end time", 1)
    IN  IF start_match # 0 THEN text[start_match].dt
        ELSE IF end_match # 0 THEN text[end_match].dt
        ELSE None

(***************************************************************************)
(* parse_final_update                                                       *)
(***************************************************************************)
\* re.split(r"-{5,}", text): the lines between the separator lines
RECURSIVE SplitSections(_, _)
SplitSections(text, cur) ==
    IF text = <<>> THEN <<cur>>
    ELSE IF Head(text).k = "dashes"
         THEN <<cur>> \o SplitSections(Tail(text), <<>>)
         ELSE SplitSections(Tail(text), Append(cur, Head(text)))

\* main.py:601 and 532: the stop lists
FinalGarbage == {"type", "method", "automation", "stats", "device", "name", "notification"}

ScheduleGarbage == {"type", "method", "automation", "stats", "device", "notification"}

\* the first run of digits in a line, -1 if it has none
DigitsOf(line) ==
    IF line.k \in {"start time", "end time"} /\ line.dt # NoDate THEN line.dt.y
    ELSE line.n

RECURSIVE FirstDigitsFrom(_, _)
FirstDigitsFrom(section, from) ==
    IF from > Len(section) THEN -1
    ELSE IF DigitsOf(section[from]) >= 0 THEN DigitsOf(section[from])
    ELSE FirstDigitsFrom(section, from + 1)

\* an account's actual state: (follows, requests, is_blocked, is_unfollow_run)
Actual(follows, requests, is_blocked, is_unfollow_run) ==
    [follows |-> follows, requests |-> requests, is_blocked |-> is_blocked,
     is_unfollow_run |-> is_unfollow_run]

\* main.py:587-598: the username a section names, "" when it names none
SectionUser(section) ==
    LET user_match == First(section, {"account username"})
        fallback == First(section, {"account"})
    IN  IF user_match # 0 THEN section[user_match].s
        ELSE IF fallback # 0 THEN section[fallback].s
        ELSE ""

\* re.search(r"<field>:\s*(\d+)"): the first line of a field in K whose value
\* starts with digits; 0 if none
RECURSIVE FirstCountFrom(_, _, _)
FirstCountFrom(section, K, from) ==
    IF from > Len(section) THEN 0
    ELSE IF section[from].k \in K /\ section[from].n >= 0 THEN from
    ELSE FirstCountFrom(section, K, from + 1)

FirstCount(section, K) == FirstCountFrom(section, K, 1)

\* main.py:627-644 without the `if is_unfollow_run: requests = 0` branch
SectionValuesRequestsKept(section) ==
    LET follows_match == FirstCount(section, {"follow made"})
        unfollow_match == FirstCount(section, {"unfollowed accounts"})
        requests_match == FirstCount(section, {"follow requests made"})
        loose == First(section, {"follow requests", "follow requests made"})
        requests_fallback == IF loose = 0 THEN -1 ELSE FirstDigitsFrom(section, loose)
        blocked_match == First(section, {"account actions blocked"})
        is_unfollow_run == unfollow_match # 0
        follows == IF unfollow_match # 0 THEN section[unfollow_match].n
                   ELSE IF follows_match # 0 THEN section[follows_match].n
                   ELSE 0
        requests == IF requests_match # 0 THEN section[requests_match].n
                    ELSE IF requests_fallback >= 0 THEN requests_fallback
                    ELSE 0
        is_blocked == blocked_match # 0 /\ Lower(section[blocked_match].s) = "true"
    IN  Actual(follows, requests, is_blocked, is_unfollow_run)

\* main.py:605-644: the values one section yields
SectionValues(section) ==
    LET follows_match == FirstCount(section, {"follow made"})
        unfollow_match == FirstCount(section, {"unfollowed accounts"})
        requests_match == FirstCount(section, {"follow requests made"})
        \* "no. of follow requests" also starts the "... requests made:" line
        loose == First(section, {"follow requests", "follow requests made"})
        requests_fallback == IF loose = 0 THEN -1 ELSE FirstDigitsFrom(section, loose)
        blocked_match == First(section, {"account actions blocked"})
        is_unfollow_run == unfollow_match # 0
        follows == IF unfollow_match # 0 THEN section[unfollow_match].n
                   ELSE IF follows_match # 0 THEN section[follows_match].n
                   ELSE 0
        requests == IF is_unfollow_run THEN 0
                    ELSE IF requests_match # 0 THEN section[requests_match].n
                    ELSE IF requests_fallback >= 0 THEN requests_fallback
                    ELSE 0
        \* `blocked_match and ...` is None without the field: falsy, kept as FALSE
        is_blocked == blocked_match # 0 /\ Lower(section[blocked_match].s) = "true"
    IN  Actual(follows, requests, is_blocked, is_unfollow_run)

\* does the loop body of main.py:586-653 store an account for this section
SectionStores(section) ==
    SectionUser(section) # "" /\ Lower(SectionUser(section)) \notin FinalGarbage

\* main.py:646-653: the older value kept, and the assignment as written
StoreKeepFirst(accounts, username, val) ==
    IF username \in DOMAIN accounts THEN accounts ELSE (username :> val) @@ accounts

StoreOverwrite(accounts, username, val) ==
    (username :> val) @@ accounts

EmptyAccounts == [u \in {} |-> Actual(0, 0, FALSE, FALSE)]

\* main.py:586-658: the loop over the sections
RECURSIVE ParseSections(_, _)
ParseSections(sections, accounts) ==
    IF sections = <<>> THEN accounts
    ELSE LET section == Head(sections)
         IN  IF SectionStores(section)
             THEN ParseSections(Tail(sections),
                      StoreOverwrite(accounts, SectionUser(section), SectionValues(section)))
             ELSE ParseSections(Tail(sections), accounts)

\* the value of parse_final_update
FinalParse(device_name, run_date, accounts, error_message) ==
    [device_name |-> device_name, run_date |-> run_date, accounts |-> accounts,
     error_message |-> error_message]

\* main.py:547-670 with the popup treated like a hard error: the accounts of
\* the sections are dropped for the placeholder
ParseFinalUpdatePopupOnly(final_update_text) ==
    IF Contains(final_update_text, "force stopped")
    THEN FinalParse("Unknown", None, EmptyAccounts, "Automation force stopped")
    ELSE IF Contains(final_update_text, "disconnected")
    THEN FinalParse("Unknown", None, EmptyAccounts, "Devices disconnected")
    ELSE
    LET popup_detected == Contains(final_update_text, "request pending")
                          \/ Contains(final_update_text, "popup detected")
        device_match == First(final_update_text, {"device name"})
        device_name == IF device_match # 0 THEN final_update_text[device_match].s
                       ELSE "Unknown"
        run_date == _extract_run_date_from_text(final_update_text)
        accounts == ParseSections(SplitSections(final_update_text, <<>>), EmptyAccounts)
        popup_account_match == First(final_update_text, {"account"})
        popup_account == IF popup_account_match # 0
                         THEN final_update_text[popup_account_match].s
                         ELSE "unknown"
    IN  IF popup_detected
        THEN FinalParse(device_name, run_date,
                 (popup_account :> Actual(0, 0, FALSE, FALSE)),
                 "Request pending popup detected")
        ELSE FinalParse(device_name, run_date, accounts, "")

\* main.py:547-670.  run_date "" is None here; error_message None is "".
parse_final_update(final_update_text) ==
    IF Contains(final_update_text, "force stopped")
    THEN FinalParse("Unknown", None, EmptyAccounts, "Automation force stopped")
    ELSE IF Contains(final_update_text, "disconnected")
    THEN FinalParse("Unknown", None, EmptyAccounts, "Devices disconnected")
    ELSE
    LET popup_detected == Contains(final_update_text, "request pending")
                          \/ Contains(final_update_text, "popup detected")
        device_match == First(final_update_text, {"device name"})
        device_name == IF device_match # 0 THEN final_update_text[device_match].s
                       ELSE "Unknown"
        run_date == _extract_run_date_from_text(final_update_text)
        accounts == ParseSections(SplitSections(final_update_text, <<>>), EmptyAccounts)
        popup_account_match == First(final_update_text, {"account"})
        popup_account == IF popup_account_match # 0
                         THEN final_update_text[popup_account_match].s
                         ELSE "unknown"
    IN  IF popup_detected
        THEN FinalParse(device_name, run_date,
                 IF DOMAIN accounts = {}
                 THEN (popup_account :> Actual(0, 0, FALSE, FALSE))
                 ELSE accounts,
                 "Request pending popup detected")
        ELSE FinalParse(device_name, run_date, accounts, "")


(***************************************************************************)
(* Device names.  A name is a string; the two regular expressions the      *)
(* source applies to names are tabulated for the names that occur.         *)
(***************************************************************************)
\* re.search(r"phone\s*(\d+)", name, re.IGNORECASE).group(1), "" without a match
PhoneDigitsIn(name) ==
    CASE name = "Phone 3" -> "3"
      [] name = "phone7" -> "7"
      [] name = "S21 Phone 3" -> "3"
      [] name = "Phone 7" -> "7"
      [] OTHER -> ""

\* re.search(r"(\d+)", name).group(1), "" without a match
FirstDigitsIn(name) ==
    CASE name = "Phone 3" -> "3"
      [] name = "phone7" -> "7"
      [] name = "S21 Phone 3" -> "21"
      [] name = "Pixel 7" -> "7"
      [] name = "Phone 7" -> "7"
      [] OTHER -> ""

\* f"Phone {digits}"
PhoneName(digits) ==
    CASE digits = "3" -> "Phone 3"
      [] digits = "7" -> "Phone 7"
      [] digits = "21" -> "Phone 21"

\* main.py:673-680
normalize_device_name(name) ==
    IF name = "" \/ name = "Unknown" THEN name
    ELSE IF PhoneDigitsIn(name) # "" THEN PhoneName(PhoneDigitsIn(name))
    ELSE name

\* main.py:697-698: re.search(r"phone-?(\d+)", channel_name), "" for None
ExpectedPhoneNum(channel_name) ==
    CASE channel_name = "phone-3" -> "3"
      [] channel_name = "phone-7" -> "7"
      [] OTHER -> ""

(***************************************************************************)
(* parse_schedule_for_date                                                  *)
(***************************************************************************)
\* a day header "Tue Dec 02 18:22:"; dd is the day as written, a digit sequence
DayHeader(emoji, wd, mon, dd) ==
    [k |-> "day header", s |-> IF emoji THEN "emoji" ELSE "", n |-> -1,
     dt |-> NoDate, wd |-> wd, mon |-> mon, dd |-> dd]

\* an account line "<username>: <status>[, <n> follows]"; n = -1 without the count
Entry(username, status, n) ==
    [k |-> "entry", s |-> status, n |-> n, dt |-> NoDate, u |-> username]

\* strftime("%a") and strftime("%b"), lower-cased
AbbrDay(dt) ==
    CASE Weekday(dt) = 0 -> "mon" [] Weekday(dt) = 1 -> "tue" [] Weekday(dt) = 2 -> "wed"
      [] Weekday(dt) = 3 -> "thu" [] Weekday(dt) = 4 -> "fri" [] Weekday(dt) = 5 -> "sat"
      [] Weekday(dt) = 6 -> "sun"

AbbrMonth(dt) ==
    CASE dt.m = 1 -> "jan" [] dt.m = 2 -> "feb" [] dt.m = 3 -> "mar" [] dt.m = 4 -> "apr"
      [] dt.m = 5 -> "may" [] dt.m = 6 -> "jun" [] dt.m = 7 -> "jul" [] dt.m = 8 -> "aug"
      [] dt.m = 9 -> "sep" [] dt.m = 10 -> "oct" [] dt.m = 11 -> "nov" [] dt.m = 12 -> "dec"

\* strftime("%d") and f"{dt.day}" as digit sequences
Padded(d) == <<d \div 10, d % 10>>

Plain(d) == IF d >= 10 THEN <<d \div 10, d % 10>> ELSE <<d>>

IsPrefix(a, b) == Len(a) <= Len(b) /\ SubSeq(b, 1, Len(a)) = a

\* main.py:468-473: a pattern is [wd, mon, dd]; wd = "" when it has no weekday
target_patterns(run_date) ==
    IF run_date = None \/ ~ValidDate(run_date.y, run_date.m, run_date.d)
    THEN <<>>
    ELSE LET dt == DateOfStr(run_date)
         IN  << [wd |-> AbbrDay(dt), mon |-> AbbrMonth(dt), dd |-> Padded(dt.d)],
                [wd |-> AbbrDay(dt), mon |-> AbbrMonth(dt), dd |-> Plain(dt.d)],
                [wd |-> "", mon |-> AbbrMonth(dt), dd |-> Padded(dt.d)],
                [wd |-> "", mon |-> AbbrMonth(dt), dd |-> Plain(dt.d)] >>

\* main.py:498: pattern.lower() in date_str_clean.lower().  The header text is
\* "<wd> <mon> <dd>"; the pattern is a substring when its words agree and its
\* day digits start the header's day digits.
PatternInHeader(pattern, hdr) ==
    /\ (pattern.wd = "" \/ pattern.wd = hdr.wd)
    /\ pattern.mon = hdr.mon
    /\ IsPrefix(pattern.dd, hdr.dd)

\* main.py:484-486: re.findall(day_pattern): the headers, each with the lines
\* up to the next header.  truthy: the captured text is a non-empty string (a
\* header that ends the text captures ""; one followed by another header
\* captures the line break between them).
RECURSIVE SectionBody(_, _)
SectionBody(text, from) ==
    IF from > Len(text) \/ text[from].k = "day header" THEN <<>>
    ELSE <<text[from]>> \o SectionBody(text, from + 1)

RECURSIVE DayMatchesFrom(_, _)
DayMatchesFrom(text, from) ==
    IF from > Len(text) THEN <<>>
    ELSE IF text[from].k = "day header"
         THEN <<[hdr |-> text[from], section |-> SectionBody(text, from + 1),
                 truthy |-> from < Len(text)]>>
              \o DayMatchesFrom(text, from + 1)
         ELSE DayMatchesFrom(text, from + 1)

\* main.py:493-505: the index of the first day section whose header contains
\* a pattern and whose text is non-empty; 0 when there is none
RECURSIVE MatchedDay(_, _, _)
MatchedDay(day_matches, patterns, i) ==
    IF i > Len(day_matches) THEN 0
    ELSE IF (\E j \in 1..Len(patterns) : PatternInHeader(patterns[j], day_matches[i].hdr))
            /\ day_matches[i].truthy
         THEN i
         ELSE MatchedDay(day_matches, patterns, i + 1)

\* main.py:512-516: re.search(r"Accounts:\s*(.*?)(?:$)"): everything after the
\* first "accounts:" of the text ("No. of unfollowed accounts:" has one too)
AccountsMatch(text) == First(text, {"accounts", "unfollowed accounts"})

AccountsTruthy(text) ==
    /\ AccountsMatch(text) # 0
    /\ (text[AccountsMatch(text)].k = "unfollowed accounts" \/ AccountsMatch(text) < Len(text))

AccountsSection(text) == SubSeq(text, AccountsMatch(text) + 1, Len(text))

\* the status alternatives of account_pattern, re.IGNORECASE
IsMethodStatus(status) == Lower(status) \in {"method 1", "method 9", "method9"}

IsOffStatus(status) == Lower(status) = "off"

\* main.py:526-528: the lines account_pattern matches, as (username, status, n)
EntryOf(line) ==
    IF line.k = "entry" THEN line
    ELSE Entry("Type", line.s, -1)      \* "Automation Type: Method N"

MatchesAccountPattern(line) ==
    \/ line.k = "entry" /\ (IsMethodStatus(line.s) \/ IsOffStatus(line.s))
    \/ line.k = "automation type" /\ IsMethodStatus(line.s)

Sched(status, follows) == [status |-> status, follows |-> follows]

EmptySchedule == [u \in {} |-> Sched("Unknown", 0)]

\* main.py:528-540: the loop over the matches; the result is (method, accounts)
RECURSIVE ParseEntries(_, _, _)
ParseEntries(section, method, accounts) ==
    IF section = <<>> THEN [method |-> method, accounts |-> accounts]
    ELSE IF ~MatchesAccountPattern(Head(section))
            \/ Lower(EntryOf(Head(section)).u) \in ScheduleGarbage
         THEN ParseEntries(Tail(section), method, accounts)
         ELSE LET e == EntryOf(Head(section))
                  follows == IF e.n >= 0 THEN e.n ELSE 0
              IN  ParseEntries(Tail(section),
                      IF IsMethodStatus(e.s) THEN e.s ELSE method,
                      (e.u :> Sched(e.s, follows)) @@ accounts)

\* the section chosen, the step that chose it ("reminder", "matched",
\* "accounts", "first day", "none") and, for a day section, its index
Selected(section, step, day) == [section |-> section, step |-> step, day |-> day]

\* main.py:478-523 with the first day taken before the 'Accounts:' section
SelectSectionFirstDay(schedule_text, run_date) ==
    LET reminder_date_match == FirstDated(schedule_text, "start time", 1)
        day_matches == DayMatchesFrom(schedule_text, 1)
        patterns == target_patterns(run_date)
        matched == IF day_matches # <<>> /\ patterns # <<>>
                   THEN MatchedDay(day_matches, patterns, 1) ELSE 0
    IN  IF Contains(schedule_text, "daily schedule reminder") \/ reminder_date_match # 0
        THEN Selected(schedule_text, "reminder", 0)
        ELSE IF matched # 0 THEN Selected(day_matches[matched].section, "matched", matched)
        ELSE IF day_matches # <<>> /\ day_matches[1].truthy
        THEN Selected(day_matches[1].section, "first day", 1)
        ELSE IF AccountsTruthy(schedule_text)
        THEN Selected(AccountsSection(schedule_text), "accounts", 0)
        ELSE Selected(<<>>, "none", 0)

\* main.py:437-523: the choice of the section
SelectSection(schedule_text, run_date) ==
    LET reminder_date_match == FirstDated(schedule_text, "start time", 1)
        day_matches == DayMatchesFrom(schedule_text, 1)
        patterns == target_patterns(run_date)
        matched == IF day_matches # <<>> /\ patterns # <<>>
                   THEN MatchedDay(day_matches, patterns, 1) ELSE 0
    IN  IF Contains(schedule_text, "daily schedule reminder") \/ reminder_date_match # 0
        THEN Selected(schedule_text, "reminder", 0)
        ELSE IF matched # 0 THEN Selected(day_matches[matched].section, "matched", matched)
        ELSE IF AccountsTruthy(schedule_text)
        THEN Selected(AccountsSection(schedule_text), "accounts", 0)
        ELSE IF day_matches # <<>>
        THEN Selected(day_matches[1].section, "first day", 1)
        ELSE IF AccountsMatch(schedule_text) # 0 THEN Selected(<<>>, "accounts", 0)
        ELSE Selected(<<>>, "none", 0)

\* main.py:437-523: the section the entries are read from
section_to_parse(schedule_text, run_date) == SelectSection(schedule_text, run_date).section

\* main.py:414-544
parse_schedule_for_date(schedule_text, run_date) ==
    LET device_match == First(schedule_text, {"weekly plan scheduled", "task"})
        device_name == IF device_match # 0 THEN schedule_text[device_match].s
                       ELSE "Unknown"
        parsed == ParseEntries(section_to_parse(schedule_text, run_date),
                               "Method 1", EmptySchedule)
    IN  [device_name |-> device_name, method |-> parsed.method,
         accounts |-> parsed.accounts]


(***************************************************************************)
(* build_channel_data.  A text that is None and a text that is "" are both *)
(* the empty sequence: the source only ever tests a text for truth.        *)
(***************************************************************************)
AccountData(username, scheduled_follows, scheduled_status, actual_follows, actual_requests, is_blocked, is_unfollow) ==
    [username |-> username, scheduled_follows |-> scheduled_follows,
     scheduled_status |-> scheduled_status, actual_follows |-> actual_follows,
     actual_requests |-> actual_requests, is_blocked |-> is_blocked,
     is_unfollow |-> is_unfollow]

ChannelData(channel_name, device_name, method, accounts, has_schedule, has_final_update, error_message) ==
    [channel_name |-> channel_name, device_name |-> device_name, method |-> method,
     accounts |-> accounts, has_schedule |-> has_schedule,
     has_final_update |-> has_final_update, error_message |-> error_message]

\* main.py:716: f"Method {group(1).strip().split()[-1]}"
MethodOfMatch(s) ==
    CASE Lower(s) = "method 1" -> "Method 1"
      [] Lower(s) = "method 9" -> "Method 9"
      [] Lower(s) = "method9" -> "Method Method9"

\* re.search(r"automation type:\s*(method\s*\d+)"): the first such line
RECURSIVE FirstMethodLine(_, _)
FirstMethodLine(text, from) ==
    IF from > Len(text) THEN 0
    ELSE IF text[from].k = "automation type" /\ IsMethodStatus(text[from].s) THEN from
    ELSE FirstMethodLine(text, from + 1)

\* main.py:713-718; "" for None
method_from_final(final_update_text) ==
    LET method_match == FirstMethodLine(final_update_text, 1)
    IN  IF final_update_text = <<>> THEN ""
        ELSE IF method_match # 0 THEN MethodOfMatch(final_update_text[method_match].s)
        ELSE IF Contains(final_update_text, "method 9") THEN "Method 9"
        ELSE ""

\* main.py:747-757 with the channel's number taken whenever there is one
ResolveDeviceNameChannelFirst(channel_name, fu_device, sched_device) ==
    LET expected_phone_num == ExpectedPhoneNum(channel_name)
        d1 == IF fu_device # "Unknown" THEN normalize_device_name(fu_device) ELSE "Unknown"
        d2 == IF d1 = "Unknown" /\ sched_device # "Unknown"
              THEN normalize_device_name(sched_device) ELSE d1
    IN  IF expected_phone_num # "" THEN PhoneName(expected_phone_num) ELSE d2

\* main.py:706-711, 722-727 and 746-766
ResolveDeviceName(channel_name, fu_device, sched_device) ==
    LET expected_phone_num == ExpectedPhoneNum(channel_name)
        d1 == IF fu_device # "Unknown" THEN normalize_device_name(fu_device) ELSE "Unknown"
        d2 == IF d1 = "Unknown" /\ sched_device # "Unknown"
              THEN normalize_device_name(sched_device) ELSE d1
        d3 == IF expected_phone_num # "" /\ d2 # "Unknown"
              THEN IF FirstDigitsIn(d2) # "" /\ FirstDigitsIn(d2) # expected_phone_num
                   THEN PhoneName(expected_phone_num)
                   ELSE normalize_device_name(d2)
              ELSE d2
    IN  IF d3 = "Unknown"
        THEN IF expected_phone_num # "" THEN PhoneName(expected_phone_num)
             ELSE normalize_device_name(d3)
        ELSE d3

\* what parse_final_update yields when build_channel_data has no final update
NoFinal == FinalParse("Unknown", None, EmptyAccounts, "")

NoSchedule == [device_name |-> "Unknown", method |-> "Method 1", accounts |-> EmptySchedule]

ParsedFinal(final_update_text) ==
    IF final_update_text # <<>> THEN parse_final_update(final_update_text) ELSE NoFinal

ParsedSchedule(schedule_text, final_update_text) ==
    IF schedule_text # <<>>
    THEN parse_schedule_for_date(schedule_text, ParsedFinal(final_update_text).run_date)
    ELSE NoSchedule

\* main.py:769 with the scheduled usernames only
ScheduledUsernames(schedule_text, final_update_text) ==
    DOMAIN ParsedSchedule(schedule_text, final_update_text).accounts

\* main.py:769
all_usernames(schedule_text, final_update_text) ==
    DOMAIN ParsedSchedule(schedule_text, final_update_text).accounts
        \cup DOMAIN ParsedFinal(final_update_text).accounts

\* the orders in which `for username in all_usernames` can visit a set of str:
\* the iteration order of a set of strings follows the strings' hashes, which
\* are salted per process
IterationOrders(S) ==
    {f \in [1..Cardinality(S) -> S] : \A i, j \in 1..Cardinality(S) : f[i] = f[j] => i = j}

\* main.py:771-796 for one username
MergeAccount(username, scheduled_accounts, actual_accounts) ==
    LET sched == IF username \in DOMAIN scheduled_accounts
                 THEN scheduled_accounts[username] ELSE Sched("Unknown", 0)
        actual == IF username \in DOMAIN actual_accounts
                  THEN actual_accounts[username] ELSE Actual(0, 0, FALSE, FALSE)
    IN  AccountData(username, sched.follows, sched.status, actual.follows,
                    actual.requests, actual.is_blocked, actual.is_unfollow_run)

\* main.py:730-732: the final update's method wins over the schedule's
ResolveMethod(from_final, from_schedule) ==
    IF from_final # "" THEN from_final ELSE from_schedule

\* main.py:683-806; `order` is the order in which the set all_usernames is visited
build_channel_data(channel_name, schedule_text, final_update_text, order) ==
    LET fu == ParsedFinal(final_update_text)
        sc == ParsedSchedule(schedule_text, final_update_text)
        method == ResolveMethod(method_from_final(final_update_text), sc.method)
        accounts == [i \in 1..Len(order) |-> MergeAccount(order[i], sc.accounts, fu.accounts)]
    IN  ChannelData(channel_name,
                    ResolveDeviceName(channel_name, fu.device_name, sc.device_name),
                    method,
                    accounts,
                    schedule_text # <<>> /\ DOMAIN sc.accounts # {},
                    final_update_text # <<>>,
                    fu.error_message)

(***************************************************************************)
(* format_output_directly.  A rendered line is a record: a header          *)
(*   "<device> – Error: <arg>" | "... – no daily task made" |              *)
(*   "... – completed daily task (<arg>)"                                  *)
(* or a bullet "   * <username>..." in one of the forms                    *)
(*   bare | blocked | off | total (with action word, total, suffix, max).  *)
(***************************************************************************)
HeaderLine(device, form, arg) ==
    [t |-> "header", name |-> device, form |-> form, arg |-> arg,
     word |-> "", total |-> 0, suffix |-> "", max |-> 0]

Bullet(username, form, word, total, suffix, max) ==
    [t |-> "bullet", name |-> username, form |-> form, arg |-> "",
     word |-> word, total |-> total, suffix |-> suffix, max |-> max]

\* main.py:853 without the test of the method
FormatHeaderAnyMethod(ch) ==
    IF ch.error_message # "" THEN HeaderLine(ch.device_name, "error", ch.error_message)
    ELSE IF ~ch.has_final_update
         THEN IF ch.accounts # <<>>
              THEN HeaderLine(ch.device_name, "completed", ch.method)
              ELSE HeaderLine(ch.device_name, "no task", "")
         ELSE HeaderLine(ch.device_name, "completed", ch.method)

\* main.py:850-858
FormatHeader(ch) ==
    IF ch.error_message # "" THEN HeaderLine(ch.device_name, "error", ch.error_message)
    ELSE IF ~ch.has_final_update
         THEN IF ch.method = "Method 9" /\ ch.accounts # <<>>
              THEN HeaderLine(ch.device_name, "completed", ch.method)
              ELSE HeaderLine(ch.device_name, "no task", "")
         ELSE HeaderLine(ch.device_name, "completed", ch.method)

\* main.py:890 with > for >=
FormatStatsStrict(acc) ==
    LET total == IF acc.is_unfollow THEN acc.actual_follows
                 ELSE acc.actual_follows + acc.actual_requests
        action_word == IF acc.is_unfollow THEN "unfollows" ELSE "follows"
    IN  IF acc.is_blocked THEN Bullet(acc.username, "blocked", "", 0, "", 0)
        ELSE IF total > acc.scheduled_follows /\ acc.scheduled_follows > 0
             THEN Bullet(acc.username, "total", action_word, total, "met",
                         acc.scheduled_follows)
        ELSE IF acc.scheduled_follows > 0
             THEN Bullet(acc.username, "total", action_word, total, "didnt",
                         acc.scheduled_follows)
        ELSE Bullet(acc.username, "total", action_word, total, "", 0)

\* main.py:874-914: the bullet of an account of a channel that is not Method 9
FormatStats(acc) ==
    LET total == IF acc.is_unfollow THEN acc.actual_follows
                 ELSE acc.actual_follows + acc.actual_requests
        action_word == IF acc.is_unfollow THEN "unfollows" ELSE "follows"
    IN  IF total > 0 \/ acc.is_blocked
        THEN IF acc.is_blocked THEN Bullet(acc.username, "blocked", "", 0, "", 0)
             ELSE IF acc.scheduled_follows = 0
                  THEN Bullet(acc.username, "total", action_word, total, "", 0)
             ELSE IF total >= acc.scheduled_follows
                  THEN Bullet(acc.username, "total", action_word, total, "met",
                              acc.scheduled_follows)
             ELSE Bullet(acc.username, "total", action_word, total, "didnt",
                         acc.scheduled_follows)
        ELSE IF acc.scheduled_status = "Off" THEN Bullet(acc.username, "off", "", 0, "", 0)
        ELSE IF acc.scheduled_status = "Method 9"
             THEN Bullet(acc.username, "bare", "", 0, "", 0)
        ELSE IF acc.scheduled_follows > 0
             THEN Bullet(acc.username, "total", "follows", 0, "didnt", acc.scheduled_follows)
        ELSE Bullet(acc.username, "total", "follows", 0, "", 0)

\* main.py:861-914 without the Method 9 branch of 867-872
FormatAccountStatsOnly(ch, acc) == FormatStats(acc)

\* main.py:861-914: the bullet of one account
FormatAccount(ch, acc) ==
    IF ch.method = "Method 9"
    THEN IF acc.is_blocked THEN Bullet(acc.username, "blocked", "", 0, "", 0)
         ELSE Bullet(acc.username, "bare", "", 0, "", 0)
    ELSE FormatStats(acc)

\* main.py:848-914 for one channel
FormatChannel(ch) ==
    <<FormatHeader(ch)>>
    \o [i \in 1..Len(ch.accounts) |-> FormatAccount(ch, ch.accounts[i])]

\* main.py:844-918
RECURSIVE format_output_directly(_)
format_output_directly(channels) ==
    IF channels = <<>> THEN <<>>
    ELSE FormatChannel(Head(channels)) \o format_output_directly(Tail(channels))

\* len(s) for the error messages parse_final_update returns (main.py:564-570)
MessageLength(s) ==
    CASE s = "Automation force stopped" -> 24
      [] s = "Devices disconnected" -> 20
      [] s = "Request pending popup detected" -> 30
      [] OTHER -> 0

\* s[:n]: the string itself when it has at most n characters
FirstChars(s, n) == IF MessageLength(s) <= n THEN s ELSE "<the first n characters>"

\* main.py:819-827 without the test of the method at 821-822
CompactStatusNoMethodTest(ch) ==
    IF ch.error_message # "" THEN [form |-> "error", arg |-> FirstChars(ch.error_message, 30)]
    ELSE IF ~ch.has_final_update THEN [form |-> "no_task", arg |-> ""]
    ELSE [form |-> "ok", arg |-> ch.method]

\* main.py:819-827: the status field of a compact line
CompactStatus(ch) ==
    IF ch.error_message # "" THEN [form |-> "error", arg |-> FirstChars(ch.error_message, 30)]
    ELSE IF ~ch.has_final_update
         THEN IF ch.method = "Method 9" /\ ch.accounts # <<>>
              THEN [form |-> "ok", arg |-> ch.method]
              ELSE [form |-> "no_task", arg |-> ""]
         ELSE [form |-> "ok", arg |-> ch.method]

\* main.py:809-841: one line device|status|accounts per channel
format_channels_compact(channels) ==
    [c \in 1..Len(channels) |->
        [device |-> channels[c].device_name,
         status |-> CompactStatus(channels[c]),
         accounts |->
            [i \in 1..Len(channels[c].accounts) |->
                LET a == channels[c].accounts[i]
                IN  [username |-> a.username, scheduled_status |-> a.scheduled_status,
                     scheduled_follows |-> a.scheduled_follows,
                     actual_follows |-> a.actual_follows,
                     actual_requests |-> a.actual_requests,
                     blocked_flag |-> IF a.is_blocked THEN "y" ELSE "n"]]]]

(***************************************************************************)
(* The reconciler as a state machine: one channel's texts go through       *)
(* build_channel_data and format_output_directly, and then once more.      *)
(***************************************************************************)
MaxSections == 2

\* the run date the texts below carry: Tuesday 2025-12-02
RunDay == DateStr(2025, 12, 2, 2, 2, "")

\* account sections of a final update
SectionPool ==
    { <<Line("account username", "alice", -1), Line("follow made", "", 30),
        Line("follow requests made", "", 25)>>,
      <<Line("account username", "alice", -1), Line("follow made", "", 50)>>,
      <<Line("account username", "alice", -1), Line("follow made", "", 30),
        Line("unfollowed accounts", "", 60), Line("follow requests made", "", 25)>>,
      <<Line("account username", "alice", -1), Line("follow made", "", 60),
        Line("account actions blocked", "True", -1)>>,
      <<Line("account username", "bob", -1), Line("follow made", "", 0),
        Line("account actions blocked", "false", -1)>>,
      <<Line("account", "bob", -1), Line("follow requests", "", 3)>>,
      <<Line("account username", "alice", -1), Line("follow made", "", 40),
        Line("unfollowed accounts", "none", -1), Line("follow requests made", "", 5)>>,
      <<Line("account", "Stats", -1), Line("follow made", "", 30)>> }

\* what precedes the first separator
PreamblePool ==
    LET head == <<Line("task final update", "", -1), Line("device name", "Phone 3", 3),
                  DateLine("start time", RunDay)>>
    IN  { head,
          Append(head, Line("automation type", "Method 1", 1)),
          Append(head, Line("automation type", "method 9", 9)),
          Append(head, Line("automation type", "Method9", 9)),
          Append(head, Line("force stopped", "", -1)),
          Append(head, Line("disconnected", "", -1)),
          Append(head, Line("request pending", "", -1)),
          head \o <<Line("method 9", "", 9), Line("popup detected", "", -1)>> }

Dashes == Line("dashes", "", -1)

RECURSIVE JoinSections(_)
JoinSections(secs) ==
    IF secs = <<>> THEN <<>>
    ELSE <<Dashes>> \o Head(secs) \o JoinSections(Tail(secs))

SectionLists(max) == UNION {[1..n -> SectionPool] : n \in 0..max}

FinalTexts(max) ==
    {<<>>} \cup {pre \o JoinSections(secs) : pre \in PreamblePool, secs \in SectionLists(max)}

\* the lines a schedule can carry for one account
AliceEntries == {<<>>, <<Entry("alice", "Method 1", 50)>>, <<Entry("alice", "Method 9", -1)>>}

BobEntries ==
    {<<>>, <<Entry("bob", "Method 1", 40)>>, <<Entry("bob", "Off", -1)>>,
     <<Entry("bob", "off", -1)>>}

ScheduleTexts ==
    {<<>>} \cup
    { <<Line("weekly plan scheduled", "Phone 3", 3),
        DayHeader(TRUE, "tue", "dec", <<0, 2>>)>> \o ea \o eb
      : ea \in AliceEntries, eb \in BobEntries }

NoChannel == ChannelData("", "", "", <<>>, FALSE, FALSE, "")

NoPrevious == [ran |-> FALSE, channel_data |-> NoChannel, output_text |-> <<>>]

IdleDay ==
    /\ today = Date(2025, 12, 3)
    /\ day_arg = WordTok("today", FALSE)
    /\ target_date = None
    /\ dayPc = "idle"

IdleReport ==
    /\ channel = ""
    /\ sched_text = <<>>
    /\ final_text = <<>>
    /\ parsed_accounts = EmptyAccounts
    /\ channel_data = NoChannel
    /\ output_text = <<>>
    /\ previous = NoPrevious
    /\ rcPc = "idle"

IdleExtract ==
    /\ messages = <<>>
    /\ final_update_index = 0
    /\ exPc = "idle"

\* parse_schedule_for_date has not been called
IdleSchedule ==
    /\ schedule_run_date = None
    /\ schedule_parse = None
    /\ schPc = "idle"

\* no InstagramLogAnalyzer has been constructed
IdleAnalyzer ==
    /\ phones = None
    /\ analysis = None
    /\ anPc = "idle"

\* run_daily_summary has not been called
IdleRun ==
    /\ IdleSchedule
    /\ IdleAnalyzer
    /\ guild = None
    /\ chan_pos = 0
    /\ channel_structs = <<>>
    /\ struct_ids = <<>>
    /\ runPc = "idle"
    /\ handlers = <<>>
    /\ loop_pc = "stopped"

\* run_daily_summary main.py:986-1005: a channel reaches build_channel_data
\* unless both texts are missing
InitReport(max) ==
    /\ IdleDay
    /\ channel = "phone-3"
    /\ sched_text \in ScheduleTexts
    /\ final_text \in FinalTexts(max)
    /\ ~(sched_text = <<>> /\ final_text = <<>>)
    /\ parsed_accounts = EmptyAccounts
    /\ channel_data = NoChannel
    /\ output_text = <<>>
    /\ previous = NoPrevious
    /\ rcPc = "extracted"
    /\ IdleExtract
    /\ IdleRun

\* main.py:1007-1012
BuildChannelData ==
    /\ rcPc = "extracted"
    /\ \E order \in IterationOrders(all_usernames(sched_text, final_text)) :
          channel_data' = build_channel_data(channel, sched_text,
                                             final_text, order)
    /\ parsed_accounts' = ParsedFinal(final_text).accounts
    /\ rcPc' = "built"
    /\ UNCHANGED <<channel, sched_text, final_text, output_text, previous>>

\* main.py:1030
FormatOutputDirectly ==
    /\ rcPc = "built"
    /\ output_text' = format_output_directly(<<channel_data>>)
    /\ rcPc' = "formatted"
    /\ UNCHANGED <<channel, sched_text, final_text, parsed_accounts,
                   channel_data, previous>>

\* the next execution (main.py:1060-1064 or 1139) finds the same texts
RunAgain ==
    /\ rcPc = "formatted"
    /\ ~previous.ran
    /\ previous' = [ran |-> TRUE, channel_data |-> channel_data,
                    output_text |-> output_text]
    /\ parsed_accounts' = EmptyAccounts
    /\ channel_data' = NoChannel
    /\ output_text' = <<>>
    /\ rcPc' = "extracted"
    /\ UNCHANGED <<channel, sched_text, final_text>>

Init == InitReport(MaxSections)

Next ==
    \/ BuildChannelData /\ UNCHANGED <<dayVars, exVars, runVars>>
    \/ FormatOutputDirectly /\ UNCHANGED <<dayVars, exVars, runVars>>

Spec == Init /\ [][Next]_vars

\* two executions over the same texts
MaxSectionsTwice == 1

InitTwice == InitReport(MaxSectionsTwice)

NextTwice ==
    \/ BuildChannelData /\ UNCHANGED <<dayVars, exVars, runVars>>
    \/ FormatOutputDirectly /\ UNCHANGED <<dayVars, exVars, runVars>>
    \/ RunAgain /\ UNCHANGED <<dayVars, exVars, runVars>>

SpecTwice == InitTwice /\ [][NextTwice]_vars

\* channels and texts that declare different device names
ChannelNames == {"phone-3", "phone-7", "general"}

DeclaredNames == {"Phone 3", "phone7", "S21 Phone 3", "Pixel 7", "Phone 7", "Galaxy"}

DeviceFinalTexts ==
    {<<>>,
     <<Line("task final update", "", -1), Line("device name", "Phone 7", -1),
       DateLine("start time", RunDay), Line("force stopped", "", -1)>>}
    \cup { <<Line("task final update", "", -1), Line("device name", d, -1),
             DateLine("start time", RunDay), Dashes,
             Line("account username", "alice", -1), Line("follow made", "", 30)>>
           : d \in DeclaredNames }
    \cup { <<Line("task final update", "", -1), DateLine("start time", RunDay), Dashes,
             Line("account username", "alice", -1), Line("follow made", "", 30)>> }

DeviceScheduleTexts ==
    {<<>>}
    \cup { <<Line("weekly plan scheduled", d, -1), DayHeader(TRUE, "tue", "dec", <<0, 2>>),
             Entry("alice", "Method 1", 50)>> : d \in DeclaredNames }
    \cup { <<DayHeader(TRUE, "tue", "dec", <<0, 2>>), Entry("alice", "Method 1", 50)>> }

InitDevice ==
    /\ IdleDay
    /\ channel \in ChannelNames
    /\ sched_text \in DeviceScheduleTexts
    /\ final_text \in DeviceFinalTexts
    /\ ~(sched_text = <<>> /\ final_text = <<>>)
    /\ parsed_accounts = EmptyAccounts
    /\ channel_data = NoChannel
    /\ output_text = <<>>
    /\ previous = NoPrevious
    /\ rcPc = "extracted"
    /\ IdleExtract
    /\ IdleRun

SpecDevice == InitDevice /\ [][Next]_vars

(***************************************************************************)
(* Properties of the parser, the reconciler and the formatter              *)
(***************************************************************************)
Built == rcPc \in {"built", "formatted"}

Formatted == rcPc = "formatted"

FinalSections == SplitSections(final_text, <<>>)

\* the account records and, for each, its bullet
AccountIndexes == 1..Len(channel_data.accounts)

BulletOf(i) == output_text[i + 1]

TotalOf(acc) ==
    IF acc.is_unfollow THEN acc.actual_follows
    ELSE acc.actual_follows + acc.actual_requests

\* the section is an account section (its name is not a stop-list word) of u
NamesUser(section, u) == SectionStores(section) /\ SectionUser(section) = u

\* C1: the state stored for a username is the one the last section naming
\* that username yields; earlier sections leave no trace.
C1_OverwriteLaw ==
    Built =>
        \A u \in DOMAIN parsed_accounts :
            \A i \in 1..Len(FinalSections) :
                (/\ NamesUser(FinalSections[i], u)
                 /\ \A j \in (i + 1)..Len(FinalSections) : ~NamesUser(FinalSections[j], u))
                => parsed_accounts[u] = SectionValues(FinalSections[i])

\* a username named by two sections that yield different values
C1_Witness ==
    /\ rcPc = "built"
    /\ \E i, j \in 1..Len(FinalSections) :
          /\ i < j
          /\ NamesUser(FinalSections[i], "alice")
          /\ NamesUser(FinalSections[j], "alice")
          /\ SectionValues(FinalSections[i]) # SectionValues(FinalSections[j])
          /\ "alice" \in DOMAIN parsed_accounts
          /\ parsed_accounts["alice"] = SectionValues(FinalSections[j])

HasMetSuffix(i) ==
    /\ BulletOf(i).suffix = "met"
    /\ BulletOf(i).max = channel_data.accounts[i].scheduled_follows

\* C2 as stated: for every account with scheduled follows > 0 the bullet carries
\* "(met the daily max which is <scheduled>)" exactly when total >= scheduled.
C2_MetIffTotalReached ==
    Formatted =>
        \A i \in AccountIndexes :
            channel_data.accounts[i].scheduled_follows > 0 =>
                (HasMetSuffix(i) <=>
                    TotalOf(channel_data.accounts[i]) >= channel_data.accounts[i].scheduled_follows)

\* C2 amended: the same for every account that is not blocked, in a channel
\* whose method is not Method 9.
C2_MetIffTotalReachedAmended ==
    Formatted =>
        \A i \in AccountIndexes :
            (/\ channel_data.accounts[i].scheduled_follows > 0
             /\ channel_data.method # "Method 9"
             /\ ~channel_data.accounts[i].is_blocked) =>
                (HasMetSuffix(i) <=>
                    TotalOf(channel_data.accounts[i]) >= channel_data.accounts[i].scheduled_follows)

\* an account whose total equals its scheduled figure, rendered as having met it
C2_Witness ==
    /\ Formatted
    /\ channel_data.method # "Method 9"
    /\ \E i \in AccountIndexes :
          /\ channel_data.accounts[i].scheduled_follows > 0
          /\ ~channel_data.accounts[i].is_blocked
          /\ TotalOf(channel_data.accounts[i]) = channel_data.accounts[i].scheduled_follows
          /\ HasMetSuffix(i)

HardErrorText ==
    Contains(final_text, "force stopped") \/ Contains(final_text, "disconnected")

\* C4: a final update with a hard-error marker yields a report with the error
\* message set, the Error header and no account record or bullet.
C4_HardErrorNoAccounts ==
    (Formatted /\ HardErrorText) =>
        /\ channel_data.error_message # ""
        /\ output_text[1] = HeaderLine(channel_data.device_name, "error",
                                       channel_data.error_message)
        /\ channel_data.accounts = <<>>
        /\ Len(output_text) = 1

\* C5: outside Method 9 channels, an account scheduled Off with zero actual
\* total that is not blocked is rendered "<username> – off".
C5_OffRenderedOff ==
    (Formatted /\ channel_data.method # "Method 9") =>
        \A i \in AccountIndexes :
            (/\ IsOffStatus(channel_data.accounts[i].scheduled_status)
             /\ TotalOf(channel_data.accounts[i]) = 0
             /\ ~channel_data.accounts[i].is_blocked) =>
                BulletOf(i) = Bullet(channel_data.accounts[i].username, "off", "", 0, "", 0)

\* C7: a second execution on the same texts yields the same ChannelData, the
\* order of its accounts included, and the same output.
C7_Deterministic ==
    (Formatted /\ previous.ran) =>
        /\ channel_data = previous.channel_data
        /\ output_text = previous.output_text

\* the channel's line of the compact report
CompactLine == format_channels_compact(<<channel_data>>)[1]

NoFinalNoError == Formatted /\ final_text = <<>> /\ channel_data.error_message = ""

DeclaredDevice ==
    IF ParsedFinal(final_text).device_name # "Unknown"
    THEN ParsedFinal(final_text).device_name
    ELSE ParsedSchedule(sched_text, final_text).device_name

ChannelNumber == ExpectedPhoneNum(channel)

Msg(text, ts) == [text |-> text, ts |-> ts]

\* main.py:125-137 (plain messages: msg.content or "")
extract_message_text(msg) == msg.text

\* main.py:111-122; the index of the hit, 0 for (None, None)
RECURSIVE FindForDateFrom(_, _, _)
FindForDateFrom(msgs, date, idx) ==
    IF idx > Len(msgs) THEN 0
    ELSE LET text == extract_message_text(msgs[idx])
             run_date == _extract_run_date_from_text(text)
         IN  IF /\ Contains(text, "task final update")
                /\ run_date # None
                /\ run_date = date
             THEN idx
             ELSE FindForDateFrom(msgs, date, idx + 1)

\* main.py:120 without the comparison with target_date
FindFirstFinalUpdate(msgs, date) ==
    LET hits == {i \in 1..Len(msgs) :
                    Contains(extract_message_text(msgs[i]), "task final update")}
    IN  IF hits = {} THEN 0 ELSE CHOOSE i \in hits : \A j \in hits : i <= j

find_final_update_for_date(msgs, date) == FindForDateFrom(msgs, date, 1)

\* main.py:297-302
IsStrictFinalUpdate(text) ==
    LET has_final_marker == Contains(text, "task final update")
        has_account == Contains(text, "account username:") \/ Contains(text, "account:")
        has_method == Contains(text, "automation type") \/ Contains(text, "method 9")
        has_popup == Contains(text, "request pending") \/ Contains(text, "popup detected")
    IN  has_final_marker /\ (has_account \/ has_method \/ has_popup)

\* main.py:315-319
IsFallbackFinalUpdate(text) ==
    LET has_popup == Contains(text, "request pending") \/ Contains(text, "popup detected")
        has_method9 == Contains(text, "method 9")
        has_stats == \/ Contains(text, "stats")
                     \/ Contains(text, "automation type")
                     \/ Contains(text, "device name")
        has_account == Contains(text, "account username:") \/ Contains(text, "account:")
    IN  (has_popup \/ has_method9) /\ has_stats /\ has_account

\* the first non-blank message from idx on that passes the strict test; 0 if none
RECURSIVE FirstStrictFrom(_, _)
FirstStrictFrom(msgs, idx) ==
    IF idx > Len(msgs) THEN 0
    ELSE LET text == extract_message_text(msgs[idx])
         IN  IF ~IsBlank(text) /\ IsStrictFinalUpdate(text) THEN idx
             ELSE FirstStrictFrom(msgs, idx + 1)

RECURSIVE FirstFallbackFrom(_, _)
FirstFallbackFrom(msgs, idx) ==
    IF idx > Len(msgs) THEN 0
    ELSE LET text == extract_message_text(msgs[idx])
         IN  IF ~IsBlank(text) /\ IsFallbackFinalUpdate(text) THEN idx
             ELSE FirstFallbackFrom(msgs, idx + 1)

\* main.py:289-323 as one scan that takes the first message passing either test
LocateFirstEither(msgs, date) ==
    IF date # None
    THEN find_final_update_for_date(msgs, date)
    ELSE LET strict == FirstStrictFrom(msgs, 1)
             fallback == FirstFallbackFrom(msgs, 1)
         IN  IF strict = 0 THEN fallback
             ELSE IF fallback = 0 THEN strict
             ELSE IF strict < fallback THEN strict ELSE fallback

\* main.py:281-323, STEP 1: the index of the final update, 0 for None
LocateFinalUpdate(msgs, date) ==
    IF date # None
    THEN find_final_update_for_date(msgs, date)
    ELSE IF FirstStrictFrom(msgs, 1) # 0 THEN FirstStrictFrom(msgs, 1)
    ELSE FirstFallbackFrom(msgs, 1)

window_sec == 300

\* main.py:203-211
is_final_like_text(text) ==
    \/ Contains(text, "task final update")
    \/ (/\ Contains(text, "automation type")
        /\ (Contains(text, "account username:") \/ Contains(text, "account:")))
    \/ Contains(text, "request pending")
    \/ Contains(text, "popup detected")
    \/ (Contains(text, "automation type") /\ Contains(text, "method 9"))

Abs(n) == IF n < 0 THEN 0 - n ELSE n

\* main.py:213-229: does consider(idx) append the message to parts
consider(msgs, primary_index, primary_text, idx) ==
    LET text == extract_message_text(msgs[idx])
        run_date == _extract_run_date_from_text(primary_text)
        msg_date == _extract_run_date_from_text(text)
    IN  /\ ~IsBlank(text)
        /\ is_final_like_text(text)
        /\ Abs(msgs[primary_index].ts - msgs[idx].ts) <= window_sec
        /\ ~(run_date # None /\ msg_date # None /\ msg_date # run_date)

\* main.py:231-238: the order in which consider is called
ConsiderOrder(msgs, primary_index) ==
    <<primary_index>>
    \o [i \in 1..(Len(msgs) - primary_index) |-> primary_index + i]
    \o [i \in 1..(primary_index - 1) |-> i]

\* parts: the indexes consider appended, in that order
RECURSIVE PartsOf(_, _, _, _)
PartsOf(msgs, primary_index, primary_text, order) ==
    IF order = <<>> THEN <<>>
    ELSE IF consider(msgs, primary_index, primary_text, Head(order))
         THEN <<Head(order)>> \o PartsOf(msgs, primary_index, primary_text, Tail(order))
         ELSE PartsOf(msgs, primary_index, primary_text, Tail(order))

\* sorted(parts, key=lambda p: p[0]) is stable: a part goes after every part
\* already placed whose timestamp is not greater
RECURSIVE InsertByTs(_, _, _)
InsertByTs(msgs, sorted, i) ==
    IF sorted = <<>> THEN <<i>>
    ELSE IF msgs[Head(sorted)].ts <= msgs[i].ts
         THEN <<Head(sorted)>> \o InsertByTs(msgs, Tail(sorted), i)
         ELSE <<i>> \o sorted

RECURSIVE SortByTs(_, _, _)
SortByTs(msgs, parts, sorted) ==
    IF parts = <<>> THEN sorted
    ELSE SortByTs(msgs, Tail(parts), InsertByTs(msgs, sorted, Head(parts)))

\* "\n".join of the texts of the messages at the indexes ix
RECURSIVE JoinTexts(_, _)
JoinTexts(msgs, ix) ==
    IF ix = <<>> THEN <<>>
    ELSE extract_message_text(msgs[Head(ix)]) \o JoinTexts(msgs, Tail(ix))

\* main.py:184-244 (primary_index 0: None)
combine_final_update_messages(msgs, primary_index, primary_text) ==
    IF primary_index = 0 THEN primary_text
    ELSE LET parts == PartsOf(msgs, primary_index, primary_text,
                              ConsiderOrder(msgs, primary_index))
         IN  IF Len(parts) = 1 THEN primary_text
             ELSE JoinTexts(msgs, SortByTs(msgs, parts, <<>>))

\* main.py:340-343
is_daily_reminder(text) ==
    \/ Contains(text, "daily schedule reminder")
    \/ (/\ Contains(text, "start time:")
        /\ Contains(text, "accounts:")
        /\ Contains(text, "task:"))

\* main.py:349-352
has_schedule_markers(text) ==
    \/ (/\ Contains(text, "schedule")
        /\ (Contains(text, "calendar emoji") \/ Contains(text, "accounts:")))
    \/ Contains(text, "weekly plan scheduled")

ScanResult(schedule_text, reminder_text) ==
    [schedule_text |-> schedule_text, reminder_text |-> reminder_text]

\* main.py:334-368, STEP 2: the loop stops at the first message with schedule
\* markers; reminder_text is the first reminder seen until then
RECURSIVE ScheduleScan(_, _, _, _)
ScheduleScan(msgs, final_update_text, idx, reminder_text) ==
    IF idx > Len(msgs) THEN ScanResult(<<>>, reminder_text)
    ELSE LET text == extract_message_text(msgs[idx])
             reminder == IF is_daily_reminder(text) /\ reminder_text = <<>>
                         THEN text ELSE reminder_text
             match == First(text, {"task final update"})
         IN  IF IsBlank(text)
             THEN ScheduleScan(msgs, final_update_text, idx + 1, reminder_text)
             ELSE IF ~has_schedule_markers(text)
             THEN ScheduleScan(msgs, final_update_text, idx + 1, reminder)
             ELSE IF final_update_text # <<>> /\ text = final_update_text
             THEN IF match # 0
                  THEN ScanResult(SubSeq(text, 1, match - 1), reminder)
                  ELSE ScheduleScan(msgs, final_update_text, idx + 1, reminder)
             ELSE ScanResult(text, reminder)

\* main.py:373-382, STEP 3: the first message that continues the schedule
RECURSIVE FirstPartTwoFrom(_, _)
FirstPartTwoFrom(msgs, idx) ==
    IF idx > Len(msgs) THEN 0
    ELSE LET text == extract_message_text(msgs[idx])
         IN  IF /\ ~IsBlank(text)
                /\ Contains(text, "(part 2)")
                /\ ~Contains(text, "task final update")
             THEN idx
             ELSE FirstPartTwoFrom(msgs, idx + 1)

Extracted(schedule_text, final_update_text, index) ==
    [schedule_text |-> schedule_text, final_update_text |-> final_update_text,
     final_update_index |-> index]

\* main.py:268-389; None and "" are both <<>>
extract_schedule_and_final_update(msgs, date) ==
    LET index == LocateFinalUpdate(msgs, date)
        primary_text == IF index = 0 THEN <<>> ELSE extract_message_text(msgs[index])
        final_update_text == IF index = 0 THEN <<>>
                             ELSE combine_final_update_messages(msgs, index, primary_text)
        scan == ScheduleScan(msgs, final_update_text, 1, <<>>)
        part_two == FirstPartTwoFrom(msgs, 1)
        schedule_text == IF scan.schedule_text # <<>> /\ part_two # 0
                         THEN scan.schedule_text \o extract_message_text(msgs[part_two])
                         ELSE scan.schedule_text
    IN  Extracted(IF scan.reminder_text # <<>> THEN scan.reminder_text ELSE schedule_text,
                  final_update_text, index)

(***************************************************************************)
(* The extraction as a state machine: one channel's history goes through   *)
(* extract_schedule_and_final_update.                                       *)
(***************************************************************************)
MaxMsgs == 3

PrevDay == DateStr(2025, 12, 1, 2, 2, "")

FinalHead ==
    <<Line("task final update", "", -1), Line("device name", "Phone 3", 3)>>

\* a final update of the run day
FinalUpdateMsg ==
    FinalHead \o
    <<DateLine("start time", RunDay), Line("automation type", "Method 1", 1), Dashes,
      Line("account username", "alice", -1), Line("follow made", "", 30)>>

\* a final update of the day before
OtherDayFinal ==
    FinalHead \o
    <<DateLine("start time", PrevDay), Line("automation type", "Method 1", 1), Dashes,
      Line("account username", "alice", -1), Line("follow made", "", 50)>>

\* the part of a long final update that the platform split off
Continuation ==
    <<Line("automation type", "Method 1", 1), Dashes,
      Line("account username", "bob", -1), Line("follow made", "", 0)>>

\* a Method 9 report without the final-update marker
Method9Report ==
    <<Line("device name", "Phone 3", 3), Line("method 9", "", 9),
      Line("account", "bob", -1)>>

PopupNote == <<Line("request pending", "", -1)>>

WeeklySchedule ==
    <<Line("weekly plan scheduled", "Phone 3", 3),
      DayHeader(TRUE, "tue", "dec", <<0, 2>>), Entry("alice", "Method 1", 50)>>

DailyReminder ==
    <<Line("daily schedule reminder", "", -1), Line("task", "Phone 3", 3),
      DateLine("start time", RunDay), Line("accounts", "", -1),
      Entry("alice", "Method 1", 40)>>

PartTwo ==
    <<Line("part 2", "", -1), DayHeader(TRUE, "wed", "dec", <<0, 3>>),
      Entry("bob", "Off", -1)>>

\* schedule and final update in one message
CombinedMsg == WeeklySchedule \o FinalUpdateMsg

Chat == <<Line("chat", "", -1)>>

Catalogue ==
    { FinalUpdateMsg, OtherDayFinal, Continuation, Method9Report, PopupNote,
      WeeklySchedule, DailyReminder, PartTwo, CombinedMsg, Chat, <<>>,
      \* a Method 9 final update: `Start Time: null`, the date in End Time
      <<Line("task final update", "", -1), Line("start time", "null", -1),
        DateLine("end time", RunDay), Line("automation type", "Method 9", 9)>> }

\* seconds between a message and the next older one
Gaps == {0, 300, 301}

RECURSIVE SumFrom(_, _)
SumFrom(gaps, i) ==
    IF i > Len(gaps) THEN 0 ELSE gaps[i] + SumFrom(gaps, i + 1)

\* the history with these texts, the oldest message at second 0
History(texts, gaps) == [i \in 1..Len(texts) |-> Msg(texts[i], SumFrom(gaps, i))]

Targets == {None, RunDay}

\* run_daily_summary main.py:970-984: the history is fetched
InitExtract ==
    /\ today = Date(2025, 12, 3)
    /\ day_arg = WordTok("today", FALSE)
    /\ target_date \in Targets
    /\ dayPc = "idle"
    /\ IdleReport
    /\ IdleRun
    /\ \E n \in 1..MaxMsgs :
          \E texts \in [1..n -> Catalogue], gaps \in [1..(n - 1) -> Gaps] :
              messages = History(texts, gaps)
    /\ final_update_index = 0
    /\ exPc = "fetched"

\* main.py:986-989
ExtractScheduleAndFinalUpdate ==
    /\ exPc = "fetched"
    /\ LET r == extract_schedule_and_final_update(messages, target_date)
       IN  /\ sched_text' = r.schedule_text
           /\ final_text' = r.final_update_text
           /\ final_update_index' = r.final_update_index
    /\ exPc' = "extracted"
    /\ UNCHANGED <<dayVars, messages, channel, parsed_accounts, channel_data,
                   output_text, previous, rcPc, runVars>>

NextExtract == ExtractScheduleAndFinalUpdate

SpecExtract == InitExtract /\ [][NextExtract]_vars

(***************************************************************************)
(* run_daily_summary: the loop over guild.text_channels                    *)
(***************************************************************************)
\* config.py:11-24, 50-72: the Settings object get_settings() builds
settings ==
    [discord_token |-> "token", server_id |-> "server", owner_user_ids |-> {"owner"},
     keywords |-> <<>>, timezone |-> "Asia/Karachi", gemini_api_key |-> "",
     gemini_model |-> "gemini-3-pro-preview"]

\* settings.<name> evaluates; otherwise the access raises AttributeError
HasAttr(name) == name \in DOMAIN settings

\* how an evaluation ends: with a value, or by raising
Returned(v) == [raised |-> "", value |-> v]

AttributeError == [raised |-> "AttributeError", value |-> FALSE]

\* main.py:953 `"test" in channel.name.lower()`
IsTestChannel(name) == name = "phone-test"

\* main.py:958 channel.name.startswith("phone-")
IsPhoneChannel(name) == name \in {"phone-3", "phone-7", "phone-test"}

\* main.py:962-963 as `or`
CanReadEither(ch) == ch.read_messages \/ ch.read_message_history

\* main.py:962-963
CanRead(ch) == ch.read_messages /\ ch.read_message_history

\* a text channel: what permissions_for(me) grants, how channel.history(...)
\* ends ("ok", "Forbidden", "HTTPException") and the messages it yields
TextChannel(name, read_messages, read_message_history, fetch, texts) ==
    [name |-> name, read_messages |-> read_messages,
     read_message_history |-> read_message_history, fetch |-> fetch,
     history |-> History(texts, [i \in 1..(Len(texts) - 1) |-> 0])]

ChannelKinds ==
    { TextChannel("phone-3", TRUE, TRUE, "ok", <<FinalUpdateMsg, WeeklySchedule>>),
      TextChannel("phone-7", TRUE, TRUE, "ok", <<WeeklySchedule>>),
      TextChannel("phone-3", TRUE, TRUE, "ok", <<Method9Report, WeeklySchedule>>),
      TextChannel("phone-test", TRUE, TRUE, "ok", <<FinalUpdateMsg, WeeklySchedule>>),
      TextChannel("general", TRUE, TRUE, "ok", <<FinalUpdateMsg, WeeklySchedule>>),
      TextChannel("phone-3", FALSE, TRUE, "ok", <<FinalUpdateMsg, WeeklySchedule>>),
      TextChannel("phone-7", TRUE, FALSE, "ok", <<FinalUpdateMsg, WeeklySchedule>>),
      TextChannel("phone-3", TRUE, TRUE, "Forbidden", <<FinalUpdateMsg, WeeklySchedule>>),
      TextChannel("phone-7", TRUE, TRUE, "HTTPException", <<FinalUpdateMsg>>),
      TextChannel("phone-3", TRUE, TRUE, "ok", <<>>),
      TextChannel("phone-7", TRUE, TRUE, "ok", <<Chat>>) }

MaxChannels == 3

\* the channel's id is its position in the guild
Guild(kinds) ==
    [text_channels |-> [i \in 1..Len(kinds) |-> [id |-> i, ch |-> kinds[i]]]]

InitRun ==
    /\ today = Date(2025, 12, 3)
    /\ day_arg = WordTok("today", FALSE)
    /\ target_date \in Targets
    /\ dayPc = "idle"
    /\ IdleReport
    /\ IdleExtract
    /\ \/ guild = None
       \/ \E n \in 0..MaxChannels : \E kinds \in [1..n -> ChannelKinds] : guild = Guild(kinds)
    /\ chan_pos = 0
    /\ channel_structs = <<>>
    /\ struct_ids = <<>>
    /\ runPc = "called"
    /\ handlers = <<>>
    /\ loop_pc = "stopped"
    /\ IdleSchedule
    /\ IdleAnalyzer

\* main.py:939-947
StartRun ==
    /\ runPc = "called"
    /\ IF guild = None
       THEN runPc' = "returned" /\ chan_pos' = chan_pos
       ELSE runPc' = "loop" /\ chan_pos' = 1
    /\ UNCHANGED <<guild, channel_structs, struct_ids, output_text>>

\* main.py:949-1021: one iteration of `for channel in guild.text_channels`
ProcessChannel ==
    /\ runPc = "loop"
    /\ chan_pos <= Len(guild.text_channels)
    /\ \E c \in {guild.text_channels[chan_pos]} :
       \E r \in {extract_schedule_and_final_update(c.ch.history, target_date)} :
           IF \/ IsTestChannel(c.ch.name)
              \/ ~IsPhoneChannel(c.ch.name)
              \/ ~CanRead(c.ch)
              \/ c.ch.fetch # "ok"
              \/ c.ch.history = <<>>
              \/ (r.schedule_text = <<>> /\ r.final_update_text = <<>>)
           THEN UNCHANGED <<channel_structs, struct_ids>>
           ELSE /\ \E order \in IterationOrders(all_usernames(r.schedule_text,
                                                              r.final_update_text)) :
                      channel_structs' =
                          Append(channel_structs,
                                 build_channel_data(c.ch.name, r.schedule_text,
                                                    r.final_update_text, order))
                /\ struct_ids' = Append(struct_ids, c.id)
    /\ chan_pos' = chan_pos + 1
    /\ UNCHANGED <<guild, runPc, output_text>>

\* main.py:1023-1057: the report is formatted and sent to the owner.  Reading
\* settings.owner_user_id raises inside the try, and again in the handler's
\* logger.exception call, from where the exception leaves the function.
FinishRun ==
    /\ runPc = "loop"
    /\ chan_pos > Len(guild.text_channels)
    /\ IF channel_structs = <<>>
       THEN runPc' = "returned" /\ output_text' = output_text
       ELSE /\ output_text' = format_output_directly(channel_structs)
            /\ IF HasAttr("owner_user_id") THEN runPc' = "sent" ELSE runPc' = "raised"
    /\ UNCHANGED <<guild, chan_pos, channel_structs, struct_ids>>

NextRun ==
    \/ StartRun /\ UNCHANGED <<dayVars, exVars, channel, sched_text, final_text, parsed_accounts, channel_data, previous, rcPc, botVars, schVars, anVars>>
    \/ ProcessChannel /\ UNCHANGED <<dayVars, exVars, channel, sched_text, final_text, parsed_accounts, channel_data, previous, rcPc, botVars, schVars, anVars>>
    \/ FinishRun /\ UNCHANGED <<dayVars, exVars, channel, sched_text, final_text, parsed_accounts, channel_data, previous, rcPc, botVars, schVars, anVars>>

SpecRun == InitRun /\ [][NextRun]_vars

(***************************************************************************)
(* The bot: on_ready, the !summary command and the daily_summary loop are  *)
(* coroutines of one event loop; a coroutine runs from one await to the    *)
(* next without interruption.                                              *)
(***************************************************************************)
\* the test of main.py:1092-1093 against the configured owner IDs
IsConfiguredOwner(user_id) == Returned(user_id \in settings.owner_user_ids)

\* main.py:1092-1093: `user_id == settings.owner_user_id`
_is_owner(user_id) ==
    IF HasAttr("owner_user_id") THEN Returned(user_id = settings.owner_user_id)
    ELSE AttributeError

UserIds == {"owner", "stranger"}

\* what follows !summary: nothing, a token parse_day_argument resolves, one it does not
CommandArgs == {None, WordTok("today", FALSE), WordTok("foo", FALSE)}

MaxHandlers == 3

Handler(kind, user, arg, pc) == [kind |-> kind, user |-> user, arg |-> arg, pc |-> pc]

\* the handler's coroutine runs to its next await, its return or its raise:
\* the position it stops at and whether it started the daily loop
HandlerStep(h) ==
    IF h.kind = "on_ready"
    THEN \* main.py:921-935
         IF ~HasAttr("owner_user_id") THEN [pc |-> "raised", start |-> FALSE]
         ELSE [pc |-> "done", start |-> TRUE]
    ELSE \* main.py:1096-1139
    CASE h.pc = "start" ->
            IF _is_owner(h.user) = AttributeError THEN [pc |-> "raised", start |-> FALSE]
            ELSE IF ~_is_owner(h.user).value THEN [pc |-> "reply_denied", start |-> FALSE]
            ELSE IF h.arg # None /\ parse_day_argument(h.arg, Date(2025, 12, 3)) = None
                 THEN [pc |-> "send_usage", start |-> FALSE]
                 ELSE [pc |-> "send_getting", start |-> FALSE]
      [] h.pc = "send_getting" -> [pc |-> "in_run", start |-> FALSE]
      [] h.pc = "in_run" -> [pc |-> "done", start |-> FALSE]
      [] OTHER -> [pc |-> "done", start |-> FALSE]

InitBot ==
    /\ IdleDay
    /\ IdleReport
    /\ IdleExtract
    /\ guild = None
    /\ chan_pos = 0
    /\ channel_structs = <<>>
    /\ struct_ids = <<>>
    /\ runPc = "idle"
    /\ handlers = <<>>
    /\ loop_pc = "stopped"
    /\ IdleSchedule
    /\ IdleAnalyzer

\* the gateway delivers READY (on every connect) or a message "!summary ..."
Dispatch ==
    /\ Len(handlers) < MaxHandlers
    /\ \/ handlers' = Append(handlers, Handler("on_ready", "", None, "start"))
       \/ \E u \in UserIds, a \in CommandArgs :
             handlers' = Append(handlers, Handler("summary", u, a, "start"))
    /\ UNCHANGED loop_pc

\* main.py:1060-1082: the loop's coroutine, once started: before_loop, then
\* run_daily_summary every 24 hours
LoopStep(pc) ==
    CASE pc = "before_loop" -> "in_run"
      [] pc = "in_run" -> "sleeping"
      [] pc = "sleeping" -> "in_run"
      [] OTHER -> pc

\* the tasks the event loop can resume: handlers (by index) and the loop (0)
Runnable ==
    {i \in 1..Len(handlers) : handlers[i].pc \notin {"done", "raised"}}
        \cup (IF loop_pc # "stopped" THEN {0} ELSE {})

\* the event loop resumes a task
Resume ==
    \E t \in Runnable :
        IF t = 0
        THEN handlers' = handlers /\ loop_pc' = LoopStep(loop_pc)
        ELSE LET step == HandlerStep(handlers[t])
             IN  /\ handlers' = [handlers EXCEPT ![t].pc = step.pc]
                 /\ loop_pc' = IF step.start /\ loop_pc = "stopped"
                               THEN "before_loop" ELSE loop_pc

NextBot ==
    \/ Dispatch /\ UNCHANGED <<dayVars, rcVars, exVars, guild, chan_pos, channel_structs, struct_ids, runPc, schVars, anVars>>
    \/ Resume /\ UNCHANGED <<dayVars, rcVars, exVars, guild, chan_pos, channel_structs, struct_ids, runPc, schVars, anVars>>

SpecBot == InitBot /\ [][NextBot]_vars

(***************************************************************************)
(* parse_schedule_for_date as a state machine: schedules of several day    *)
(* sections and run dates                                                   *)
(***************************************************************************)
HeaderPool ==
    { DayHeader(TRUE, "tue", "dec", <<0, 2>>), DayHeader(TRUE, "tue", "dec", <<2>>),
      DayHeader(TRUE, "sat", "dec", <<2, 0>>), DayHeader(FALSE, "wed", "dec", <<0, 3>>),
      DayHeader(TRUE, "sun", "nov", <<0, 2>>), DayHeader(FALSE, "mon", "dec", <<0, 2>>) }

MaxDays == 3

\* the entry of the i-th day section names the i-th user
DayUsers == <<"alice", "bob", "dave">>

DaySection(hdr, i, filled) ==
    IF filled THEN <<hdr, Entry(DayUsers[i], "Method 1", 10 * i)>> ELSE <<hdr>>

RECURSIVE JoinDays(_, _, _)
JoinDays(hdrs, filled, i) ==
    IF i > Len(hdrs) THEN <<>>
    ELSE DaySection(hdrs[i], i, filled[i]) \o JoinDays(hdrs, filled, i + 1)

\* what precedes the day sections
SchedulePreambles ==
    { <<Line("weekly plan scheduled", "Phone 3", 3)>>,
      <<Line("weekly plan scheduled", "Phone 3", 3), Line("accounts", "", -1)>>,
      <<Line("weekly plan scheduled", "Phone 3", 3), Line("accounts", "", -1),
        Entry("carol", "Method 9", -1)>>,
      <<Line("task", "Phone 3", 3), DateLine("start time", PrevDay),
        Line("accounts", "", -1), Entry("carol", "Method 1", 40)>> }

RunDates ==
    {None, RunDay, DateStr(2025, 12, 20, 2, 2, ""), DateStr(2025, 2, 30, 2, 2, "")}

InitSchedule ==
    /\ IdleAnalyzer
    /\ IdleDay
    /\ IdleExtract
    /\ channel = ""
    /\ \E n \in 0..MaxDays :
          \E hdrs \in [1..n -> HeaderPool], filled \in [1..n -> BOOLEAN],
             pre \in SchedulePreambles :
                sched_text = pre \o JoinDays(hdrs, filled, 1)
    /\ final_text = <<>>
    /\ parsed_accounts = EmptyAccounts
    /\ channel_data = NoChannel
    /\ output_text = <<>>
    /\ previous = NoPrevious
    /\ rcPc = "idle"
    /\ guild = None
    /\ chan_pos = 0
    /\ channel_structs = <<>>
    /\ struct_ids = <<>>
    /\ runPc = "idle"
    /\ handlers = <<>>
    /\ loop_pc = "stopped"
    /\ schedule_run_date \in RunDates
    /\ schedule_parse = None
    /\ schPc = "called"

\* main.py:414-544
ParseScheduleForDate ==
    /\ schPc = "called"
    /\ schedule_parse' =
          [parsed |-> parse_schedule_for_date(sched_text, schedule_run_date),
           selected |-> SelectSection(sched_text, schedule_run_date)]
    /\ schPc' = "returned"
    /\ UNCHANGED schedule_run_date

NextSchedule ==
    ParseScheduleForDate /\ UNCHANGED <<dayVars, rcVars, exVars, guild, chan_pos, channel_structs, struct_ids, runPc, botVars, anVars>>

SpecSchedule == InitSchedule /\ [][NextSchedule]_vars

(***************************************************************************)
(* Properties of the extraction                                             *)
(***************************************************************************)
ExtractedNow == exPc = "extracted"

PrimaryText == extract_message_text(messages[final_update_index])

\* final-update-like, within the window of the primary, of a compatible run date
StitchCandidate(i) ==
    LET text == extract_message_text(messages[i])
    IN  /\ i # final_update_index
        /\ is_final_like_text(text)
        /\ Abs(messages[i].ts - messages[final_update_index].ts) <= 300
        /\ \/ _extract_run_date_from_text(text) = None
           \/ _extract_run_date_from_text(PrimaryText) = None
           \/ _extract_run_date_from_text(text) = _extract_run_date_from_text(PrimaryText)

\* the ways to list the messages of S once each, timestamps not decreasing
Orderings(S) ==
    { ix \in [1..Cardinality(S) -> S] :
        /\ \A j, k \in 1..Cardinality(S) : j < k =>
              /\ ix[j] # ix[k]
              /\ messages[ix[j]].ts <= messages[ix[k]].ts }

\* C6: the stitched text is made of parts in non-decreasing timestamp order,
\* and a message other than the primary is one of them exactly when it is
\* final-update-like, within 300 seconds of the primary and of a compatible
\* run date.
C6_StitchWindow ==
    (ExtractedNow /\ final_update_index # 0) =>
        \E S \in SUBSET (1..Len(messages)) :
            /\ S \ {final_update_index} = {i \in 1..Len(messages) : StitchCandidate(i)}
            /\ \E ix \in Orderings(S) : final_text = JoinTexts(messages, ix)

\* C10: when the history holds a daily reminder, the schedule text returned is
\* the newest reminder.
C10_ReminderWins ==
    ExtractedNow =>
        \A i \in 1..Len(messages) :
            (/\ is_daily_reminder(extract_message_text(messages[i]))
             /\ \A j \in 1..(i - 1) : ~is_daily_reminder(extract_message_text(messages[j])))
            => sched_text = extract_message_text(messages[i])

\* a '(Part 2)' message that is not a final update (main.py:378)
IsPartTwo(text) ==
    /\ ~IsBlank(text)
    /\ Contains(text, "(part 2)")
    /\ ~Contains(text, "task final update")

EndsWith(text, tail) ==
    /\ Len(text) > Len(tail)
    /\ SubSeq(text, Len(text) - Len(tail) + 1, Len(text)) = tail

\* C11: when a schedule text is returned and the history holds a '(Part 2)'
\* message that is not a final update, the returned schedule text ends with
\* the text of that message, appended to the chosen schedule.
C11_PartTwoAppended ==
    (ExtractedNow /\ sched_text # <<>>) =>
        \A i \in 1..Len(messages) :
            (/\ IsPartTwo(extract_message_text(messages[i]))
             /\ \A j \in 1..(i - 1) : ~IsPartTwo(extract_message_text(messages[j])))
            => EndsWith(sched_text, extract_message_text(messages[i]))

\* the run date a text carries: the date of its first dated start time field,
\* else of its first dated end time field, else none
RunDateOf(text) ==
    LET starts == {i \in 1..Len(text) : text[i].k = "start time" /\ text[i].dt # NoDate}
        ends == {i \in 1..Len(text) : text[i].k = "end time" /\ text[i].dt # NoDate}
    IN  IF starts # {} THEN text[CHOOSE i \in starts : \A j \in starts : i <= j].dt
        ELSE IF ends # {} THEN text[CHOOSE i \in ends : \A j \in ends : i <= j].dt
        ELSE None

\* a message with the final-update marker whose run date is the target date
IsTargetFinal(i) ==
    /\ Contains(extract_message_text(messages[i]), "task final update")
    /\ RunDateOf(extract_message_text(messages[i])) = target_date

\* C12: with a target date, the located final update is the newest message
\* that carries the final-update marker and the target as its run date; when
\* there is none, neither text nor index is returned.
C12_DateTargeted ==
    (ExtractedNow /\ target_date # None) =>
        IF \E i \in 1..Len(messages) : IsTargetFinal(i)
        THEN /\ final_update_index \in 1..Len(messages)
             /\ IsTargetFinal(final_update_index)
             /\ \A j \in 1..(final_update_index - 1) : ~IsTargetFinal(j)
        ELSE final_update_index = 0 /\ final_text = <<>>

\* the hit takes its date from End Time and is not the newest final update
C12_Witness ==
    /\ ExtractedNow
    /\ target_date # None
    /\ final_update_index > 1
    /\ FirstDated(PrimaryText, "start time", 1) = 0
    /\ IsTargetFinal(final_update_index)
    /\ \E j \in 1..(final_update_index - 1) :
          /\ Contains(extract_message_text(messages[j]), "task final update")
          /\ RunDateOf(extract_message_text(messages[j])) # target_date

(***************************************************************************)
(* Properties of the run                                                    *)
(***************************************************************************)
LoopDone == runPc \in {"returned", "raised", "sent"} /\ guild # None

\* the channel's read permissions are missing or its history fetch failed
ChannelFailed(c) ==
    \/ ~c.ch.read_messages
    \/ ~c.ch.read_message_history
    \/ c.ch.fetch \in {"Forbidden", "HTTPException"}

\* a phone channel that is not a test channel, can be read, and whose history
\* holds a schedule or a final update
ChannelEligible(c) ==
    /\ IsPhoneChannel(c.ch.name) /\ ~IsTestChannel(c.ch.name)
    /\ ~ChannelFailed(c)
    /\ LET r == extract_schedule_and_final_update(c.ch.history, target_date)
       IN  r.schedule_text # <<>> \/ r.final_update_text # <<>>

\* C15: the loop ends only after the last channel; a channel without read
\* permissions or with a failed history fetch is not in the report set, and
\* every eligible channel is in it exactly once, whatever failed before it.
C15_FailureIsolation ==
    /\ (runPc # "loop" /\ guild # None /\ runPc # "called")
          => chan_pos = Len(guild.text_channels) + 1
    /\ LoopDone =>
          \A p \in 1..Len(guild.text_channels) :
              LET c == guild.text_channels[p]
                  hits == {i \in 1..Len(struct_ids) : struct_ids[i] = c.id}
              IN  /\ ChannelFailed(c) => hits = {}
                  /\ ChannelEligible(c) =>
                        /\ Cardinality(hits) = 1
                        /\ \A i \in hits : channel_structs[i].channel_name = c.ch.name

\* an eligible channel behind a channel whose fetch failed and one without
\* read permissions is reported
C15_Witness ==
    /\ LoopDone
    /\ Len(guild.text_channels) = 3
    /\ guild.text_channels[1].ch.fetch # "ok"
    /\ ~guild.text_channels[2].ch.read_messages
    /\ ChannelEligible(guild.text_channels[3])
    /\ struct_ids = <<3>>

(***************************************************************************)
(* Properties of the bot                                                    *)
(***************************************************************************)
\* the executions of run_daily_summary in progress
InProgress ==
    Cardinality({i \in 1..Len(handlers) : handlers[i].pc = "in_run"})
        + (IF loop_pc = "in_run" THEN 1 ELSE 0)

OccursIn(part, text) ==
    \E k \in 0..(Len(text) - Len(part)) : SubSeq(text, k + 1, k + Len(part)) = part

\* C17: whenever the locator returned a primary message, the stitched final
\* update is non-empty and contains the primary's text, and it is exactly the
\* primary's text when no other message qualifies as a part.
C17_PrimaryKept ==
    (ExtractedNow /\ final_update_index # 0) =>
        /\ final_text # <<>>
        /\ OccursIn(PrimaryText, final_text)
        /\ (\A i \in 1..Len(messages) : ~StitchCandidate(i)) => final_text = PrimaryText

\* message i is not blank and satisfies the strict rule / the relaxed rule
StrictHit(i) ==
    LET text == extract_message_text(messages[i])
    IN  ~IsBlank(text) /\ IsStrictFinalUpdate(text)

RelaxedHit(i) ==
    LET text == extract_message_text(messages[i])
    IN  ~IsBlank(text) /\ IsFallbackFinalUpdate(text)

\* C18: without a target date the locator returns the newest message that
\* satisfies the strict rule if there is one, else the newest that satisfies
\* the relaxed rule, else nothing (no index and no text).
C18_LocatorCascade ==
    (ExtractedNow /\ target_date = None) =>
        LET N == 1..Len(messages)
        IN  IF \E i \in N : StrictHit(i)
            THEN /\ final_update_index \in N
                 /\ StrictHit(final_update_index)
                 /\ \A j \in 1..(final_update_index - 1) : ~StrictHit(j)
            ELSE IF \E i \in N : RelaxedHit(i)
            THEN /\ final_update_index \in N
                 /\ RelaxedHit(final_update_index)
                 /\ \A j \in 1..(final_update_index - 1) : ~RelaxedHit(j)
            ELSE final_update_index = 0 /\ final_text = <<>>

\* a strict hit is returned although a newer message satisfies the relaxed rule
C18_Witness ==
    /\ ExtractedNow /\ target_date = None
    /\ final_update_index > 1
    /\ StrictHit(final_update_index)
    /\ RelaxedHit(1) /\ ~StrictHit(1)

(***************************************************************************)
(* Properties of the schedule parser                                        *)
(***************************************************************************)
ScheduleParsed == schPc = "returned"

\* the day sections of the schedule, in the order of the text
DaySections == DayMatchesFrom(sched_text, 1)

\* the number a header's day digits denote
DayNumber(dd) == IF Len(dd) = 1 THEN dd[1] ELSE 10 * dd[1] + dd[2]

\* the header names the month and the day of the month of the run date
NamesRunDate(hdr) ==
    /\ hdr.mon = AbbrMonth(DateOfStr(schedule_run_date))
    /\ DayNumber(hdr.dd) = schedule_run_date.d

\* C19: a day section selected by the header match names the month and the
\* day of the month of the run date.
C19_SameDayOfMonth ==
    (ScheduleParsed /\ schedule_parse.selected.step = "matched") =>
        NamesRunDate(DaySections[schedule_parse.selected.day].hdr)

\* main.py:437: the schedule is treated as a daily reminder
ReminderApplies ==
    \/ Contains(sched_text, "daily schedule reminder")
    \/ FirstDated(sched_text, "start time", 1) # 0

\* the header of day section i contains one of the renderings of the run date
HeaderMatches(i) ==
    \E j \in 1..Len(target_patterns(schedule_run_date)) :
        PatternInHeader(target_patterns(schedule_run_date)[j], DaySections[i].hdr)

\* C20: when no daily reminder applies, the section parsed is the first day
\* section whose header matches the run date if there is one; otherwise the
\* text after 'Accounts:' if the schedule has one; otherwise the first day
\* section.
C20_SectionPrecedence ==
    (ScheduleParsed /\ ~ReminderApplies) =>
        LET sel == schedule_parse.selected
            M == {i \in 1..Len(DaySections) : HeaderMatches(i)}
        IN  IF M # {}
            THEN \E d \in M : /\ \A i \in M : d <= i
                               /\ sel.section = DaySections[d].section
            ELSE IF AccountsMatch(sched_text) # 0
            THEN sel.section = AccountsSection(sched_text)
            ELSE IF DaySections # <<>>
            THEN sel.section = DaySections[1].section
            ELSE sel.section = <<>>

(***************************************************************************)
(* The resolver as a state machine                                          *)
(***************************************************************************)
InitDay ==
    /\ today \in Todays
    /\ day_arg \in DayTokens
    /\ target_date = None
    /\ dayPc = "called"
    /\ IdleReport
    /\ IdleExtract
    /\ IdleRun

\* summary_command calls parse_day_argument(day_arg, settings.timezone)
ParseDayArgument ==
    /\ dayPc = "called"
    /\ target_date' = parse_day_argument(day_arg, today)
    /\ dayPc' = "returned"
    /\ UNCHANGED <<today, day_arg>>
    /\ UNCHANGED <<rcVars, exVars, runVars>>

NextDay == ParseDayArgument

SpecDay == InitDay /\ [][NextDay]_vars

(***************************************************************************)
(* Properties of the resolver                                               *)
(***************************************************************************)
\* the string is the zero-padded YYYY-MM-DD form of a date of the calendar
IsCanonicalDate(s) ==
    /\ s # None
    /\ s.mw = 2 /\ s.dw = 2 /\ s.tail = ""
    /\ ValidDate(s.y, s.m, s.d)

IsWeekdayToken(tok) == tok.shape = "word" /\ tok.w \in DOMAIN day_names

\* C8: a weekday token resolves to the date 1..7 days before today that falls
\* on that weekday (7 days when today is that weekday); "today" resolves to
\* today's date.
C8_WeekdayResolution ==
    dayPc = "returned" =>
        /\ IsWeekdayToken(day_arg) =>
              /\ IsCanonicalDate(target_date)
              /\ LET back == ToOrdinal(today) - ToOrdinal(DateOfStr(target_date))
                 IN  /\ back \in 1..7
                     /\ Weekday(DateOfStr(target_date)) = day_names[day_arg.w]
                     /\ (Weekday(today) = day_names[day_arg.w] => back = 7)
        /\ (day_arg.shape = "word" /\ day_arg.w = "today") =>
              target_date = DateStr(today.y, today.m, today.d, 2, 2, "")

\* a weekday token, typed in upper case, on a day that is that weekday
C8_Witness ==
    /\ dayPc = "returned"
    /\ IsWeekdayToken(day_arg)
    /\ day_arg.uc
    /\ Weekday(today) = day_names[day_arg.w]
    /\ ToOrdinal(today) - ToOrdinal(DateOfStr(target_date)) = 7

\* C9: parse_day_argument returns None or a canonical zero-padded date of the
\* calendar; anything else is a failure and is never passed on as a date.
C9_NoneOrCanonicalDate ==
    dayPc = "returned" => (target_date = None \/ IsCanonicalDate(target_date))

\* the token names a month and a day: "<month> <day>" with a known month name,
\* or MM/DD (MM-DD)
IsMonthDayToken(tok) ==
    \/ tok.shape = "monthday" /\ tok.w \in DOMAIN month_names
    \/ tok.shape = "short"

TokenMonth(tok) == IF tok.shape = "monthday" THEN month_names[tok.w] ELSE tok.m

\* the years in which the nearest past occurrence of a month and day can lie
\* (a leap day is at most eight years back)
YearsBack(tdy) == (tdy.y - 8)..tdy.y

\* the month and day occur in year y, on or before tdy
OccursByToday(y, m, d, tdy) == ValidDate(y, m, d) /\ ~DateAfter(Date(y, m, d), tdy)

\* C21: a month/day token that names a day of the calendar of some year
\* resolves to the latest date with that month and day that is not after
\* today; the result is never in the future.
C21_NearestPastOccurrence ==
    (/\ dayPc = "returned"
     /\ IsMonthDayToken(day_arg)
     /\ \E y \in YearsBack(today) : ValidDate(y, TokenMonth(day_arg), day_arg.d))
    => /\ IsCanonicalDate(target_date)
       /\ target_date.m = TokenMonth(day_arg)
       /\ target_date.d = day_arg.d
       /\ OccursByToday(target_date.y, target_date.m, target_date.d, today)
       /\ \A y \in YearsBack(today) :
              OccursByToday(y, TokenMonth(day_arg), day_arg.d, today)
                  => y <= target_date.y

\* the last section of the final update that stores an account for u; 0 if none
LastSectionOf(u) ==
    LET hits == {i \in 1..Len(FinalSections) : NamesUser(FinalSections[i], u)}
    IN  IF hits = {} THEN 0 ELSE CHOOSE i \in hits : \A j \in hits : j <= i

\* the "unfollowed accounts" counts a section carries
UnfollowCounts(section) ==
    {section[i].n : i \in {j \in 1..Len(section) :
                              section[j].k = "unfollowed accounts" /\ section[j].n >= 0}}

\* C22: an account is an unfollow run exactly when its last section carries
\* an "unfollowed accounts" count; an unfollow run has requests = 0 and
\* follows = that count, whatever "follow made" and "follow requests" counts
\* the section carries besides.
C22_UnfollowInvariant ==
    Built =>
        \A u \in DOMAIN parsed_accounts :
            LET last == LastSectionOf(u)
                counts == IF last = 0 THEN {} ELSE UnfollowCounts(FinalSections[last])
            IN  /\ parsed_accounts[u].is_unfollow_run <=> counts # {}
                /\ parsed_accounts[u].is_unfollow_run =>
                      /\ parsed_accounts[u].requests = 0
                      /\ parsed_accounts[u].follows \in counts

\* an account whose last section carries an unfollowed count next to a
\* "follow made" and a "follow requests made" count, after a section without
C22_Witness ==
    /\ rcPc = "built"
    /\ "alice" \in DOMAIN parsed_accounts
    /\ LastSectionOf("alice") = 3
    /\ UnfollowCounts(FinalSections[2]) = {}
    /\ NamesUser(FinalSections[2], "alice")
    /\ UnfollowCounts(FinalSections[3]) = {60}
    /\ First(FinalSections[3], {"follow made"}) # 0
    /\ First(FinalSections[3], {"follow requests made"}) # 0
    /\ parsed_accounts["alice"] = Actual(60, 0, FALSE, TRUE)

\* the text carries a pending-request/popup marker and no hard-error marker
SoftErrorText ==
    /\ \E i \in 1..Len(final_text) : final_text[i].k \in {"request pending", "popup detected"}
    /\ \A i \in 1..Len(final_text) : final_text[i].k \notin {"force stopped", "disconnected"}

\* the usernames the sections of the final update yield
SectionUsers == {u \in {SectionUser(FinalSections[i]) : i \in 1..Len(FinalSections)} : LastSectionOf(u) # 0}

\* C23: a popup text without hard-error marker yields the error message
\* "Request pending popup detected" and every account of its sections; when
\* no section yields an account, exactly one placeholder account, zeroed.
C23_SoftError ==
    (Built /\ SoftErrorText) =>
        /\ channel_data.error_message = "Request pending popup detected"
        /\ SectionUsers # {} =>
              /\ DOMAIN parsed_accounts = SectionUsers
              /\ \A u \in SectionUsers :
                     parsed_accounts[u] = SectionValues(FinalSections[LastSectionOf(u)])
        /\ SectionUsers = {} =>
              /\ Cardinality(DOMAIN parsed_accounts) = 1
              /\ \A u \in DOMAIN parsed_accounts :
                     parsed_accounts[u] = Actual(0, 0, FALSE, FALSE)

\* a popup text whose sections yield two accounts with counts
C23_Witness ==
    /\ rcPc = "built"
    /\ SoftErrorText
    /\ SectionUsers = {"alice", "bob"}
    /\ parsed_accounts["alice"].follows > 0
    /\ parsed_accounts["bob"].requests > 0
    /\ channel_data.error_message = "Request pending popup detected"

\* "Method N" for the number N
MethodName(n) == IF n = 1 THEN "Method 1" ELSE IF n = 9 THEN "Method 9" ELSE "Method ?"

\* the method the final update declares: the number of its first
\* "Automation Type: Method N" line, else Method 9 when the text mentions
\* "method 9"; "" when it declares none
DeclaredMethod ==
    LET hits == {i \in 1..Len(final_text) :
                    final_text[i].k = "automation type" /\ IsMethodStatus(final_text[i].s)}
    IN  IF hits # {} THEN MethodName(final_text[CHOOSE i \in hits : \A j \in hits : i <= j].n)
        ELSE IF \E i \in 1..Len(final_text) : "method 9" \in PhrasesOf(final_text[i])
        THEN "Method 9"
        ELSE ""

\* the last Method-N status among the entries parsed from the schedule;
\* the parser's default when there is none
ScheduleMethod ==
    LET section == section_to_parse(sched_text, ParsedFinal(final_text).run_date)
        hits == {i \in 1..Len(section) :
                    /\ section[i].k = "entry"
                    /\ IsMethodStatus(section[i].s)
                    /\ Lower(section[i].u) \notin ScheduleGarbage}
    IN  IF hits = {} THEN "Method 1"
        ELSE section[CHOOSE i \in hits : \A j \in hits : j <= i].s

\* C24: the report's method is the one the final update declares; without
\* one, the last Method-N status of the parsed schedule; without a schedule,
\* "Method 1".
C24_MethodResolution ==
    Built =>
        channel_data.method =
            IF DeclaredMethod # "" THEN DeclaredMethod
            ELSE IF sched_text # <<>> THEN ScheduleMethod
            ELSE "Method 1"

\* the two maps build_channel_data merges
ScheduledMap == ParsedSchedule(sched_text, final_text).accounts

ActualMap == ParsedFinal(final_text).accounts

RecordsOf(u) == {i \in AccountIndexes : channel_data.accounts[i].username = u}

\* C25: the report has exactly one account record per username of the union
\* of the scheduled and the actual map; a username absent from the schedule
\* has status "Unknown" and 0 scheduled follows, one absent from the final
\* update has 0 follows, 0 requests, is not blocked and not an unfollow run.
C25_MergeInvariant ==
    Built =>
        LET scheduled == ScheduledMap
            actual == ActualMap
        IN  /\ \A i \in AccountIndexes :
                   channel_data.accounts[i].username \in DOMAIN scheduled \cup DOMAIN actual
            /\ \A u \in DOMAIN scheduled \cup DOMAIN actual :
                   /\ Cardinality(RecordsOf(u)) = 1
                   /\ \A i \in RecordsOf(u) :
                          LET acc == channel_data.accounts[i]
                          IN  /\ IF u \in DOMAIN scheduled
                                 THEN /\ acc.scheduled_status = scheduled[u].status
                                      /\ acc.scheduled_follows = scheduled[u].follows
                                 ELSE /\ acc.scheduled_status = "Unknown"
                                      /\ acc.scheduled_follows = 0
                              /\ IF u \in DOMAIN actual
                                 THEN /\ acc.actual_follows = actual[u].follows
                                      /\ acc.actual_requests = actual[u].requests
                                      /\ acc.is_blocked = actual[u].is_blocked
                                      /\ acc.is_unfollow = actual[u].is_unfollow_run
                                 ELSE /\ acc.actual_follows = 0
                                      /\ acc.actual_requests = 0
                                      /\ ~acc.is_blocked
                                      /\ ~acc.is_unfollow

\* a username of the final update only next to one of the schedule only
C25_Witness ==
    /\ rcPc = "built"
    /\ DOMAIN ScheduledMap = {"bob"}
    /\ DOMAIN ActualMap = {"alice"}
    /\ ScheduledMap["bob"].follows > 0
    /\ ActualMap["alice"].follows > 0
    /\ Len(channel_data.accounts) = 2

\* the channel a report was built for, and what the run extracted from it
ReportChannel(i) == guild.text_channels[struct_ids[i]].ch

\* C26: in every report of a run has_final_update is true whenever the
\* locator found a final-update message in the channel, and has_schedule is
\* true exactly when schedule text was found and at least one scheduled
\* account was parsed from it.
C26_ReportFlags ==
    runPc \in {"loop", "returned", "raised", "sent"} /\ guild # None =>
        \A i \in 1..Len(channel_structs) :
            LET r == extract_schedule_and_final_update(ReportChannel(i).history, target_date)
                located == LocateFinalUpdate(ReportChannel(i).history, target_date) # 0
                scheduled == ParsedSchedule(r.schedule_text, r.final_update_text).accounts
            IN  /\ located => channel_structs[i].has_final_update
                /\ channel_structs[i].has_schedule
                      <=> (r.schedule_text # <<>> /\ DOMAIN scheduled # {})

\* C27: the compact rendering has one line per channel, and its status is
\* "error:<first 30 characters of the message>" exactly when the direct
\* header is the Error form, "no_task" exactly when the header reads "no daily
\* task made", and "ok:<method>" exactly when it reads "completed daily task
\* (<method>)".
C27_RenderingsAgree ==
    Formatted =>
        LET header == output_text[1]
            status == CompactLine.status
        IN  /\ Len(format_channels_compact(<<channel_data>>)) = 1
            /\ CompactLine.device = header.name
            /\ status.form \in {"error", "no_task", "ok"}
            /\ status.form = "error" <=> header.form = "error"
            /\ status.form = "no_task" <=> header.form = "no task"
            /\ status.form = "ok" <=> header.form = "completed"
            /\ status.form = "error" => status.arg = FirstChars(header.arg, 30)
            /\ status.form = "ok" => status.arg = header.arg

\* a Method 9 schedule without final update: both renderings report the
\* task as done
C27_Witness ==
    /\ Formatted
    /\ final_text = <<>>
    /\ output_text[1].form = "completed"
    /\ CompactLine.status = [form |-> "ok", arg |-> "Method 9"]

(***************************************************************************)
(* InstagramAutomationAnalyzer (src/instagram_analyzer.py) reading the      *)
(* text format_output_directly wrote.  A line of the text is the           *)
(* HeaderLine or Bullet record the formatter appended.                      *)
(***************************************************************************)

\* instagram_analyzer.py:42: re.match(r'Phone (\d+)\s*–\s*(.+)', line_stripped)
\* on "<device_name> – <status>", int(group(1)); 0 where it does not match
HeaderPhoneNumber(line) ==
    IF line.t # "header" THEN 0
    ELSE CASE line.name = "Phone 3" -> 3
           [] line.name = "Phone 7" -> 7
           [] line.name = "Phone 21" -> 21
           [] OTHER -> 0

\* instagram_analyzer.py:51-53: re.search(r'\(Method (\d+)\)', status), 0 for None
HeaderMethod(line) ==
    IF line.form # "completed" THEN 0
    ELSE CASE line.arg = "Method 1" -> 1
           [] line.arg = "Method 9" -> 9
           [] OTHER -> 0

\* instagram_analyzer.py:55-62
PhoneRecord(line) ==
    [number |-> HeaderPhoneNumber(line),
     status |-> [form |-> line.form, arg |-> line.arg],
     method |-> HeaderMethod(line),
     accounts |-> <<>>,
     no_task_made |-> line.form = "no task",
     completed |-> line.form = "completed"]

\* an entry of phone['accounts']; daily_max -1 is None, and a met_max of None
\* is FALSE: the code only tests `not account['met_max']` (line 211)
Account(name, follows, unfollows, daily_max, met_max, status) ==
    [name |-> name, follows |-> follows, unfollows |-> unfollows,
     daily_max |-> daily_max, met_max |-> met_max, status |-> status]

\* instagram_analyzer.py:152: any(skip in line_stripped for skip in
\* ['Phone', 'Daily', 'Summary'])
HasSkipWord(name) == name \in {"Daily.Tips"}

\* instagram_analyzer.py:107-112: the first account of that name, 0 for none
RECURSIVE AccountNamed(_, _, _)
AccountNamed(accounts, name, from) ==
    IF from > Len(accounts) THEN 0
    ELSE IF accounts[from].name = name THEN from
    ELSE AccountNamed(accounts, name, from + 1)

\* instagram_analyzer.py:70-160: what one bullet does to phone['accounts']
AccountsAfter(accounts, line) ==
    IF line.form = "total" /\ line.word = "follows"
    THEN Append(accounts,
                Account(line.name, line.total, 0,
                        IF line.suffix # "" THEN line.max ELSE -1,
                        line.suffix = "met", "active"))
    ELSE IF line.form = "total" /\ line.word = "unfollows"
    THEN LET found == AccountNamed(accounts, line.name, 1)
         IN  IF found # 0
             THEN [accounts EXCEPT ![found].unfollows = line.total]
             ELSE Append(accounts, Account(line.name, 0, line.total, -1, FALSE, "active"))
    ELSE IF line.form = "blocked"
    THEN Append(accounts, Account(line.name, 0, 0, -1, FALSE, "blocked"))
    ELSE IF line.form = "off"
    THEN Append(accounts, Account(line.name, 0, 0, -1, FALSE, "off"))
    ELSE IF HasSkipWord(line.name) THEN accounts
    ELSE Append(accounts, Account(line.name, 0, 0, -1, FALSE, "active"))

\* self.phones[phone_num] = value
PutPhone(phs, phone_num, value) ==
    [n \in DOMAIN phs \cup {phone_num} |-> IF n = phone_num THEN value ELSE phs[n]]

NoPhones == [n \in {} |-> PhoneRecord(HeaderLine("", "no task", ""))]

\* instagram_analyzer.py:31-160: one iteration of the loop over the lines;
\* current_phone 0 is None.  A header that is not "Phone <digits> – ..." falls
\* through to the account patterns and matches none of them.
ParseLogLine(st, line) ==
    IF HeaderPhoneNumber(line) # 0
    THEN [phones |-> PutPhone(st.phones, HeaderPhoneNumber(line), PhoneRecord(line)),
          current_phone |-> HeaderPhoneNumber(line)]
    ELSE IF st.current_phone = 0 \/ line.t = "header" THEN st
    ELSE [st EXCEPT !.phones[st.current_phone].accounts = AccountsAfter(@, line)]

RECURSIVE ParseLogFrom(_, _, _)
ParseLogFrom(st, lines, i) ==
    IF i > Len(lines) THEN st
    ELSE ParseLogFrom(ParseLogLine(st, lines[i]), lines, i + 1)

\* instagram_analyzer.py:20-160: self.phones after parse_log(raw_text)
parse_log(lines) ==
    ParseLogFrom([phones |-> NoPhones, current_phone |-> 0], lines, 1).phones

\* sorted(self.phones.keys())
RECURSIVE SortedKeys(_)
SortedKeys(S) ==
    IF S = {} THEN <<>>
    ELSE LET least == CHOOSE n \in S : \A m \in S : n <= m
         IN  <<least>> \o SortedKeys(S \ {least})

\* instagram_analyzer.py:178-182: the sum over one phone's accounts
RECURSIVE SumAccounts(_, _)
SumAccounts(accounts, unfollows) ==
    IF accounts = <<>> THEN 0
    ELSE (IF Head(accounts).status = "off" THEN 0
          ELSE IF unfollows THEN Head(accounts).unfollows
          ELSE Head(accounts).follows)
         + SumAccounts(Tail(accounts), unfollows)

RECURSIVE SumPhones(_, _, _)
SumPhones(phs, keys, unfollows) ==
    IF keys = <<>> THEN 0
    ELSE (IF phs[Head(keys)].completed
          THEN SumAccounts(phs[Head(keys)].accounts, unfollows) ELSE 0)
         + SumPhones(phs, Tail(keys), unfollows)

\* instagram_analyzer.py:162-182
calculate_totals(phs) ==
    [total_follows |-> SumPhones(phs, SortedKeys(DOMAIN phs), FALSE),
     total_unfollows |-> SumPhones(phs, SortedKeys(DOMAIN phs), TRUE),
     active_phones |-> Cardinality({n \in DOMAIN phs : phs[n].completed})]

\* instagram_analyzer.py:18: nothing calls set_excluded_phones
excluded_phones == {}

\* instagram_analyzer.py:205-217: the failures of one phone
FailedOfPhone(phone) ==
    LET failed(i) == /\ phone.accounts[i].status # "off"
                     /\ phone.accounts[i].daily_max # -1
                     /\ ~phone.accounts[i].met_max
        Failure(acc) == [phone |-> phone.number, account |-> acc.name,
                         error_type |-> "Performance", daily_max |-> acc.daily_max]
        RECURSIVE From(_)
        From(i) == IF i > Len(phone.accounts) THEN <<>>
                   ELSE (IF failed(i) THEN <<Failure(phone.accounts[i])>> ELSE <<>>)
                        \o From(i + 1)
    IN  From(1)

RECURSIVE FailedOfPhones(_, _)
FailedOfPhones(phs, keys) ==
    IF keys = <<>> THEN <<>>
    ELSE (IF Head(keys) \in excluded_phones \/ phs[Head(keys)].no_task_made
             \/ ~phs[Head(keys)].completed
          THEN <<>> ELSE FailedOfPhone(phs[Head(keys)]))
         \o FailedOfPhones(phs, Tail(keys))

\* instagram_analyzer.py:184-217: self.failed_accounts
identify_errors(phs) == FailedOfPhones(phs, SortedKeys(DOMAIN phs))

\* successful / active_phones * 100
Rate(successful, active_phones) == [successful |-> successful, of |-> active_phones]

\* instagram_analyzer.py:219-224; 0.0 is Rate(0, 1)
get_success_rate(active_phones, failed_accounts) ==
    IF active_phones = 0 THEN Rate(0, 1)
    ELSE Rate(active_phones
              - Cardinality({i \in 1..Len(failed_accounts) :
                                \/ failed_accounts[i].phone <= 20
                                \/ failed_accounts[i].phone > 25}),
              active_phones)

(***************************************************************************)
(* The analyzer run on a report: format_output_directly over the channels   *)
(* of a run, then analyze_from_file's calls and get_success_rate.           *)
(***************************************************************************)
MaxReports == 2

\* a channel and the device name its final update declares
AnalyzedDevices ==
    { [channel |-> "phone-3", declared |-> "Phone 3"],
      [channel |-> "phone-7", declared |-> "Phone 7"],
      [channel |-> "phone-3", declared |-> "Galaxy"] }

AnalyzedHead(declared) ==
    <<Line("task final update", "", -1), Line("device name", declared, -1),
      DateLine("start time", RunDay)>>

AnalyzedSections ==
    { <<>>,
      <<Dashes, Line("account username", "alice", -1), Line("follow made", "", 50)>>,
      <<Dashes, Line("account username", "alice", -1), Line("follow made", "", 30),
        Dashes, Line("account", "bob", -1), Line("follow requests", "", 3)>>,
      <<Dashes, Line("account username", "alice", -1), Line("follow made", "", 60),
        Line("account actions blocked", "True", -1)>>,
      <<Dashes, Line("account username", "alice", -1), Line("follow made", "", 30),
        Line("unfollowed accounts", "", 60)>>,
      <<Line("force stopped", "", -1)>> }

AnalyzedFinalTexts(declared) ==
    {<<>>} \cup {AnalyzedHead(declared) \o secs : secs \in AnalyzedSections}

AnalyzedScheduleTexts ==
    {<<>>} \cup
    { <<DayHeader(TRUE, "tue", "dec", <<0, 2>>)>> \o entries
      : entries \in { <<Entry("alice", "Method 1", 50), Entry("bob", "Method 1", 40)>>,
                      <<Entry("alice", "Method 1", 50), Entry("bob", "Off", -1)>>,
                      <<Entry("alice", "Method 9", -1), Entry("Daily.Tips", "Method 9", -1)>> } }

\* the ChannelData run_daily_summary can collect for these channels
AnalyzedReports ==
    UNION { { build_channel_data(dev.channel, s, f, order)
              : order \in IterationOrders(all_usernames(s, f)) }
            : dev \in AnalyzedDevices, s \in AnalyzedScheduleTexts,
              f \in UNION {AnalyzedFinalTexts(d.declared) : d \in AnalyzedDevices} }

InitAnalyze ==
    /\ IdleDay
    /\ IdleReport
    /\ IdleExtract
    /\ IdleSchedule
    /\ guild = None
    /\ chan_pos = 0
    /\ \E n \in 0..MaxReports : channel_structs \in [1..n -> AnalyzedReports]
    /\ struct_ids = <<>>
    /\ runPc = "returned"
    /\ handlers = <<>>
    /\ loop_pc = "stopped"
    /\ phones = None
    /\ analysis = None
    /\ anPc = "built"

\* main.py:1030: summary_text = format_output_directly(channel_structs)
FormatReport ==
    /\ anPc = "built"
    /\ output_text' = format_output_directly(channel_structs)
    /\ anPc' = "formatted"
    /\ UNCHANGED <<phones, analysis>>

\* instagram_analyzer.py:455-461
ParseLog ==
    /\ anPc = "formatted"
    /\ phones' = parse_log(output_text)
    /\ analysis' = [total_follows |-> 0, total_unfollows |-> 0, active_phones |-> 0,
                    failed_accounts |-> <<>>, success_rate |-> None]
    /\ anPc' = "parsed"
    /\ UNCHANGED output_text

\* instagram_analyzer.py:464
CalculateTotals ==
    /\ anPc = "parsed"
    /\ \E t \in {calculate_totals(phones)} :
          analysis' = [analysis EXCEPT !.total_follows = t.total_follows,
                                       !.total_unfollows = t.total_unfollows,
                                       !.active_phones = t.active_phones]
    /\ anPc' = "totalled"
    /\ UNCHANGED <<output_text, phones>>

\* instagram_analyzer.py:465
IdentifyErrors ==
    /\ anPc = "totalled"
    /\ analysis' = [analysis EXCEPT !.failed_accounts = identify_errors(phones)]
    /\ anPc' = "identified"
    /\ UNCHANGED <<output_text, phones>>

\* instagram_analyzer.py:242: generate_summary reads get_success_rate()
GetSuccessRate ==
    /\ anPc = "identified"
    /\ analysis' = [analysis EXCEPT !.success_rate =
                       get_success_rate(analysis.active_phones, analysis.failed_accounts)]
    /\ anPc' = "rated"
    /\ UNCHANGED <<output_text, phones>>

AnalyzeUnchanged ==
    UNCHANGED <<dayVars, exVars, channel, sched_text, final_text, parsed_accounts, channel_data, previous, rcPc, guild, chan_pos, channel_structs, struct_ids, runPc, botVars, schVars>>

NextAnalyze ==
    \/ FormatReport /\ AnalyzeUnchanged
    \/ ParseLog /\ AnalyzeUnchanged
    \/ CalculateTotals /\ AnalyzeUnchanged
    \/ IdentifyErrors /\ AnalyzeUnchanged
    \/ GetSuccessRate /\ AnalyzeUnchanged

SpecAnalyze == InitAnalyze /\ [][NextAnalyze]_vars

(***************************************************************************)
(* Properties of the analyzer on the formatter's text                       *)
(***************************************************************************)
Parsed == anPc \in {"parsed", "totalled", "identified", "rated"}

\* the nearest header line before line i of the report
HeaderBefore(i) ==
    CHOOSE h \in 1..i : /\ output_text[h].t = "header"
                        /\ \A k \in (h + 1)..i : output_text[k].t # "header"

\* C28: after parse_log has read a text format_output_directly wrote, every
\* account bullet is recorded, in its place, under the device of the nearest
\* preceding header line, and a 'total # of follows made: T' bullet is recorded
\* with follows = T and with met_max true exactly when it carries the
\* '(met the daily max ...)' suffix, false when it carries "didn't met".
C28_RoundTrip ==
    Parsed =>
        \A i \in 1..Len(output_text) :
            output_text[i].t = "bullet" =>
                LET h == HeaderBefore(i)
                    phone_num == HeaderPhoneNumber(output_text[h])
                IN  /\ phone_num \in DOMAIN phones
                    /\ i - h <= Len(phones[phone_num].accounts)
                    /\ phones[phone_num].accounts[i - h].name = output_text[i].name
                    /\ (output_text[i].form = "total" /\ output_text[i].word = "follows"
                        => /\ phones[phone_num].accounts[i - h].follows = output_text[i].total
                           /\ (output_text[i].suffix = "met"
                               => phones[phone_num].accounts[i - h].met_max)
                           /\ (output_text[i].suffix = "didnt"
                               => ~phones[phone_num].accounts[i - h].met_max))

\* C29: the number of successful phones get_success_rate computes lies between
\* 0 and the number of active phones, so the rate lies between 0 and 100
C29_SuccessRateInRange ==
    anPc = "rated" =>
        /\ 0 <= analysis.success_rate.successful
        /\ analysis.success_rate.successful <= analysis.success_rate.of

\* C30: when the coroutine of a !summary command takes its first step, it goes
\* on to the run (or to the usage message for a token that names no day) if
\* the author's ID is one of settings.owner_user_ids, and to the
\* not-authorized reply, without a run, for every other author.
C30_OwnerOnly ==
    [][\A i \in 1..Len(handlers) :
          (handlers[i].kind = "summary" /\ handlers[i].pc = "start"
              /\ handlers'[i].pc # "start")
          => IF handlers[i].user \in settings.owner_user_ids
             THEN handlers'[i].pc \in {"send_getting", "send_usage"}
             ELSE handlers'[i].pc = "reply_denied"]_vars

=============================================================================
